---- MODULE Spec2Model ----
(***************************************************************************)
(* Model of the polar server core: the license key entitlement engine      *)
(* (polar/license_key/service.py), the checkout state machine              *)
(* (polar/checkout/service.py), the order reconciler                       *)
(* (polar/order/service.py, known through tests/order/test_service.py)     *)
(* and the webhook dispatcher (polar/webhook/service.py).                  *)
(*                                                                         *)
(* Python's None is the integer None (-1) for integer-valued fields and    *)
(* the string "None" for string-valued fields.  Database rows are kept in  *)
(* sequences; the index of a row is its primary key.                       *)
(***************************************************************************)
EXTENDS Integers, Sequences, FiniteSets, TLC

VARIABLES
    lks,          \* license_keys table: sequence of LicenseKey rows
    acts,         \* license_key_activations table: sequence of rows
    now,          \* utc_now()
    lkw,          \* concurrent license key requests: worker -> local state
    credit,       \* sum of the increments of the concurrent validate calls
                  \* that returned without raising
    checkouts,    \* checkouts table: sequence of Checkout rows
    checkout,     \* the Checkout object of the last checkout service call,
                  \* as the call left it in memory (None when it had none)
    stripeCustomers, \* customers created at the processor (create_customer)
    setupIntents, \* setup intents created at the processor
    stripeCalls,  \* create_subscription / create_invoice calls issued
    stripeObjects, \* subscriptions and invoices the processor has created
    cow,          \* concurrent success callbacks: worker -> local state
    orders,       \* orders table: sequence of committed Order rows
    jobs,         \* jobs enqueued by the order reconciler
    orw,          \* concurrent reconciliations: worker -> local state
    ledger,       \* payment transactions, held balances, balance transfers
    webhook_endpoints, \* webhook_endpoints table: sequence of rows
    webhook_events,    \* webhook_events table: sequence of rows
    whJobs,       \* webhook_event.send jobs enqueued by send_payload
    whs,          \* the send_payload call in progress
    last,         \* outcome of the most recently completed service call
    ncalls        \* number of service calls and clock ticks completed

lkVars == <<lks, acts, now, lkw, credit>>

coVars == <<checkouts, checkout, stripeCustomers, setupIntents, stripeCalls,
            stripeObjects, cow>>

orVars == <<orders, jobs, orw, ledger>>

whVars == <<webhook_endpoints, webhook_events, whJobs, whs>>

vars == <<lkVars, coVars, orVars, whVars, last, ncalls>>

----------------------------------------------------------------------------
(* Bounds *)

MaxKeys == 1
MaxActs == 2
MaxTime == 1
MaxUse == 2
MaxCalls == 4
MaxReqs == 3
MaxCheckouts == 1
MaxInvoices == 2
ConcCheckouts == 2
MaxGrants == 2
MaxEndpoints == 2

----------------------------------------------------------------------------
(* Values *)

None == -1

Users == {1, 2}
Benefits == {1}
Workers == {1, 2}

\* benefit.organization_id
BenefitOrg(b) == b

\* Python truthiness of an optional integer: None and 0 are falsy.
Falsy(x) == x = None \/ x = 0

\* The conditions maps used by activations and validate requests; 0 is {}.
Conds == {0, 1}

\* benefit.properties of a license key benefit: limit_usage,
\* activations.limit and the expires ttl.
PropsSet ==
    { [limit_usage |-> 2, limit_activations |-> None, ttl |-> None],
      [limit_usage |-> 1, limit_activations |-> 1, ttl |-> 1],
      [limit_usage |-> None, limit_activations |-> 2, ttl |-> None] }

\* The record of a completed call: the operation, the row it was applied to,
\* the request (validate), the exception raised ("ok" when none) and the
\* number it reports (remaining usages, new row id).
NoReq == [activation_id |-> None, conditions |-> 0, benefit_id |-> None,
          user_id |-> None, increment_usage |-> None]

NoLast == [op |-> "none", key |-> 0, req |-> NoReq, outcome |-> "none",
           info |-> 0]

ResultReq(op, k, req, outcome, info) ==
    [op |-> op, key |-> k, req |-> req, outcome |-> outcome, info |-> info]

Result(op, k, outcome, info) == ResultReq(op, k, NoReq, outcome, info)

\* One more step completes: a service call, or a tick of the clock.
Called ==
    /\ ncalls < MaxCalls
    /\ ncalls' = ncalls + 1

----------------------------------------------------------------------------
(* License key model methods *)

\* LicenseKey.is_active
is_active(lk) == lk.status = "granted"

\* LicenseKey.mark_validated: sets last_validated_at and adds the increment
\* to the usage attribute of the loaded object.
mark_validated(lk, inc) ==
    [lk EXCEPT !.last_validated_at = now,
               !.usage = IF Falsy(inc) THEN @ ELSE @ + inc]

\* LicenseKey.mark_revoked
mark_revoked(lk) == [lk EXCEPT !.status = "revoked"]

\* LicenseKeyActivation.mark_deleted: sets deleted_at (soft delete).
mark_deleted(act) == [act EXCEPT !.deleted = TRUE]

\* LicenseKeyCreate.build: the creation request derived from the benefit.
Build(user, benefit, props, keyno) ==
    [organization_id |-> BenefitOrg(benefit),
     user_id |-> user,
     benefit_id |-> benefit,
     key |-> keyno,
     status |-> "granted",
     usage |-> 0,
     limit_usage |-> props.limit_usage,
     limit_activations |-> props.limit_activations,
     expires_at |-> IF props.ttl = None THEN None ELSE now + props.ttl,
     last_validated_at |-> None]

----------------------------------------------------------------------------
(* License key queries *)

KeyIds == 1..Len(lks)
ActIds == 1..Len(acts)

\* A lookup that forgets the license_key_id filter.
get_activation_of_any_key(k, aid) ==
    IF aid \in ActIds /\ ~acts[aid].deleted THEN aid ELSE None

\* get_activation_or_raise: the activation id, or None for ResourceNotFound.
get_activation_or_raise(k, aid) ==
    IF aid \in ActIds /\ acts[aid].license_key_id = k /\ ~acts[aid].deleted
    THEN aid ELSE None

\* get_activation_count over a given activations table
CountIn(tbl, k) ==
    Cardinality({a \in 1..Len(tbl) :
                   tbl[a].license_key_id = k /\ ~tbl[a].deleted})

\* A count that forgets the deleted_at filter.
get_activation_count_all(k) ==
    Cardinality({a \in ActIds : acts[a].license_key_id = k})

get_activation_count(k) == CountIn(acts, k)

\* A lookup that skips the keys that are revoked.
get_by_grant_unless_revoked(id, org, user, benefit) ==
    IF id \in KeyIds /\ lks[id].organization_id = org
       /\ lks[id].user_id = user /\ lks[id].benefit_id = benefit
       /\ lks[id].status # "revoked"
    THEN id ELSE None

\* A lookup that forgets the user_id filter.
get_by_grant_of_any_user(id, org, user, benefit) ==
    IF id \in KeyIds /\ lks[id].organization_id = org
       /\ lks[id].benefit_id = benefit
    THEN id ELSE None

\* get_by_grant_or_raise: the key id, or None for ResourceNotFound.
get_by_grant_or_raise(id, org, user, benefit) ==
    IF id \in KeyIds /\ lks[id].organization_id = org
       /\ lks[id].user_id = user /\ lks[id].benefit_id = benefit
    THEN id ELSE None

----------------------------------------------------------------------------
(* validate, as a function of the loaded key object                         *)

\* The validate requests: <<activation_id, conditions, benefit_id, user_id>>
\* combined with every increment_usage.
ValidateTargets ==
    { <<None, 0, None, None>>, <<1, 0, None, None>>, <<1, 1, None, None>>,
      <<2, 1, 1, 1>>, <<None, 0, 2, None>>, <<None, 0, None, 2>>,
      <<None, 0, 1, 1>> }

Increments == {None} \cup 0..MaxUse

ValidateReqs ==
    { [activation_id |-> t[1], conditions |-> t[2], benefit_id |-> t[3],
       user_id |-> t[4], increment_usage |-> n] :
        t \in ValidateTargets, n \in {None, 1} }
    \cup
    { [NoReq EXCEPT !.increment_usage = n] : n \in Increments }

\* An expiry test that lets the key live through its expiry instant.
has_expired_after(lk) == lk.expires_at # None /\ now > lk.expires_at

\* The expiry test of validate: expires_at is set and utc_now() >= it.
has_expired(lk) == lk.expires_at # None /\ now >= lk.expires_at

\* A validate that marks the key before it tests the remaining usage.
marked_before_the_test(lk, v) == mark_validated(lk, v.increment_usage)

\* The key object when BadRequest is raised: mark_validated has not run
not_yet_marked(lk, v) == lk

\* The outcome of validate on the loaded object lk of key k:
\* exc is the exception raised ("ok" when none), lk the object afterwards,
\* info the remaining count reported by BadRequest.
ValidateOutcome(k, lk, v) ==
    LET aid == IF v.activation_id = None THEN None
               ELSE get_activation_or_raise(k, v.activation_id)
        remaining == lk.limit_usage - lk.usage
    IN
    IF ~is_active(lk)
      THEN [exc |-> "ResourceNotFound", lk |-> lk, info |-> 0]
    ELSE IF has_expired(lk)
      THEN [exc |-> "ResourceNotFound", lk |-> lk, info |-> 0]
    ELSE IF v.activation_id # None /\ aid = None
      THEN [exc |-> "ResourceNotFound", lk |-> lk, info |-> 0]
    ELSE IF v.activation_id # None /\ acts[aid].conditions # 0
            /\ v.conditions # acts[aid].conditions
      THEN [exc |-> "ResourceNotFound", lk |-> lk, info |-> 0]
    ELSE IF v.benefit_id # None /\ v.benefit_id # lk.benefit_id
      THEN [exc |-> "ResourceNotFound", lk |-> lk, info |-> 0]
    ELSE IF v.user_id # None /\ v.user_id # lk.user_id
      THEN [exc |-> "ResourceNotFound", lk |-> lk, info |-> 0]
    ELSE IF ~Falsy(v.increment_usage) /\ ~Falsy(lk.limit_usage)
            /\ v.increment_usage > remaining
      THEN [exc |-> "BadRequest", lk |-> not_yet_marked(lk, v),
            info |-> remaining]
    ELSE [exc |-> "ok", lk |-> mark_validated(lk, v.increment_usage),
          info |-> 0]

----------------------------------------------------------------------------
(* License key service calls, each run alone (one request, one session)     *)

\* LicenseKeyService.validate
validate(k, v) ==
    LET r == ValidateOutcome(k, lks[k], v) IN
    /\ r.lk.usage <= MaxUse
    /\ lks' = [lks EXCEPT ![k] = r.lk]
    /\ last' = ResultReq("validate", k, v, r.exc, r.info)
    /\ Called
    /\ UNCHANGED <<acts, now, lkw, credit, coVars, orVars, whVars>>

\* An activate that refuses a key that is not active or has expired.
ActivateChecksOfLiveKey(k) ==
    IF ~is_active(lks[k]) \/ has_expired(lks[k]) THEN "NotPermitted"
    ELSE IF Falsy(lks[k].limit_activations) THEN "NotPermitted"
    ELSE IF get_activation_count(k) >= lks[k].limit_activations
      THEN "NotPermitted"
    ELSE "ok"

\* The checks of activate: the exception raised, "ok" when none
ActivateChecks(k) ==
    IF Falsy(lks[k].limit_activations) THEN "NotPermitted"
    ELSE IF get_activation_count(k) >= lks[k].limit_activations
      THEN "NotPermitted"
    ELSE "ok"

\* LicenseKeyService.activate
activate(k, cond) ==
    /\ Called
    /\ UNCHANGED <<lks, now, lkw, credit, coVars, orVars, whVars>>
    /\ IF ActivateChecks(k) # "ok"
         THEN /\ last' = Result("activate", k, ActivateChecks(k), 0)
              /\ UNCHANGED acts
       ELSE /\ Len(acts) < MaxActs
            /\ acts' = Append(acts, [license_key_id |-> k,
                                     conditions |-> cond,
                                     deleted |-> FALSE])
            /\ last' = Result("activate", k, "ok", Len(acts) + 1)

\* LicenseKeyService.deactivate; the call records the activation id named
\* by the request.
deactivate(k, aid) ==
    LET a == get_activation_or_raise(k, aid)
        req == [NoReq EXCEPT !.activation_id = aid]
    IN
    /\ Called
    /\ UNCHANGED <<lks, now, lkw, credit, coVars, orVars, whVars>>
    /\ IF a = None
         THEN /\ last' = ResultReq("deactivate", k, req,
                                   "ResourceNotFound", 0)
              /\ UNCHANGED acts
         ELSE /\ acts' = [acts EXCEPT ![a] = mark_deleted(@)]
              /\ last' = ResultReq("deactivate", k, req, "ok", a)

\* The LicenseKeyUpdate requests: the fields that are set (exclude_unset).
Updates ==
    { [f \in {"limit_usage"} |-> 1],
      [f \in {"limit_usage"} |-> 2],
      [f \in {"limit_activations"} |-> 1],
      [f \in {"usage"} |-> 0],
      [f \in {"expires_at"} |-> 1] }
    \cup { [f \in {"status"} |-> s] : s \in {"granted", "disabled"} }

\* setattr for each field that is set
SetAttrs(obj, upd) ==
    [f \in DOMAIN obj |-> IF f \in DOMAIN upd THEN upd[f] ELSE obj[f]]

\* LicenseKeyService.update
update(k, upd) ==
    /\ lks' = [lks EXCEPT ![k] = SetAttrs(@, upd)]
    /\ last' = Result("update", k, "ok", 0)
    /\ Called
    /\ UNCHANGED <<acts, now, lkw, credit, coVars, orVars, whVars>>

\* LicenseKeyService.user_update_grant
user_update_grant(id, schema) ==
    LET k == get_by_grant_or_raise(id, schema.organization_id,
                                   schema.user_id, schema.benefit_id)
    IN
    IF k = None
      THEN /\ last' = Result("user_grant", id, "ResourceNotFound", 0)
           /\ UNCHANGED lks
      ELSE /\ lks' = [lks EXCEPT ![k] =
                        [@ EXCEPT !.status = schema.status,
                                  !.expires_at = schema.expires_at,
                                  !.limit_activations =
                                      schema.limit_activations,
                                  !.limit_usage = schema.limit_usage]]
           /\ last' = Result("user_grant", k, "ok", 0)

\* LicenseKeyService.user_create_grant
user_create_grant(schema) ==
    /\ lks' = Append(lks, schema)
    /\ last' = Result("user_grant", Len(lks) + 1, "ok", 1)

\* LicenseKeyService.user_grant
user_grant(user, benefit, props, license_key_id) ==
    LET create_schema == Build(user, benefit, props, Len(lks) + 1) IN
    /\ Called
    /\ UNCHANGED <<acts, now, lkw, credit, coVars, orVars, whVars>>
    /\ IF license_key_id # None
         THEN user_update_grant(license_key_id, create_schema)
         ELSE user_create_grant(create_schema)

\* LicenseKeyService.user_revoke; the call records (info) whether the key
\* was revoked already.
user_revoke(user, benefit, license_key_id) ==
    LET k == get_by_grant_or_raise(license_key_id, BenefitOrg(benefit),
                                   user, benefit)
    IN
    /\ Called
    /\ UNCHANGED <<acts, now, lkw, credit, coVars, orVars, whVars>>
    /\ IF k = None
         THEN /\ last' = Result("user_revoke", license_key_id,
                                "ResourceNotFound", 0)
              /\ UNCHANGED lks
         ELSE /\ lks' = [lks EXCEPT ![k] = mark_revoked(@)]
              /\ last' = Result("user_revoke", k, "ok",
                                IF lks[k].status = "revoked" THEN 1 ELSE 0)

\* The clock advances.
Tick ==
    /\ now < MaxTime
    /\ now' = now + 1
    /\ last' = Result("tick", 0, "none", 0)
    /\ Called
    /\ UNCHANGED <<lks, acts, lkw, credit, coVars, orVars, whVars>>

----------------------------------------------------------------------------
(* Concurrent license key requests.  Every request has its own session:    *)
(* it loads the key row (get_by_key reads without locking the row), runs   *)
(* the service method on the loaded object and writes the changed          *)
(* attributes back when the session is flushed.                            *)

Idle == [pc |-> "idle", key |-> 0, obj |-> 0, req |-> NoReq]

IdleWorkers == [w \in Workers |-> Idle]

Busy == Cardinality({w \in Workers : lkw[w].pc # "idle"})

\* A request is accepted while the number of requests is below the bound.
Accept == ncalls + Busy < MaxReqs

\* The request completes.
Finish(w, r) ==
    /\ lkw' = [lkw EXCEPT ![w] = Idle]
    /\ last' = r
    /\ ncalls' = ncalls + 1

\* validate up to the flush: the key is loaded, checked and marked.
ValidateLoad(w, k, v) ==
    LET r == ValidateOutcome(k, lks[k], v) IN
    /\ lkw[w].pc = "idle"
    /\ Accept
    /\ r.lk.usage <= MaxUse
    /\ UNCHANGED <<lks, acts, now, coVars, orVars, whVars>>
    /\ IF r.exc # "ok"
         THEN /\ Finish(w, ResultReq("validate", k, v, r.exc, r.info))
              /\ UNCHANGED credit
         ELSE /\ lkw' = [lkw EXCEPT ![w] =
                           [pc |-> "validate_flush", key |-> k,
                            obj |-> r.lk, req |-> v]]
              /\ UNCHANGED <<credit, last, ncalls>>

\* The flush of validate: UPDATE of the attributes mark_validated has set.
FlushValidated(row, obj, inc) ==
    [row EXCEPT !.last_validated_at = obj.last_validated_at,
                !.usage = IF Falsy(inc) THEN @ ELSE obj.usage]

ValidateFlush(w) ==
    LET k == lkw[w].key
        v == lkw[w].req
    IN
    /\ lkw[w].pc = "validate_flush"
    /\ lks' = [lks EXCEPT ![k] =
                 FlushValidated(@, lkw[w].obj, v.increment_usage)]
    /\ credit' = credit
                 + (IF Falsy(v.increment_usage) THEN 0
                    ELSE v.increment_usage)
    /\ Finish(w, ResultReq("validate", k, v, "ok", 0))
    /\ UNCHANGED <<acts, now, coVars, orVars, whVars>>

\* activate up to the flush: the limit is checked against the count.
ActivateCount(w, k, cond) ==
    /\ lkw[w].pc = "idle"
    /\ Accept
    /\ UNCHANGED <<lks, acts, now, credit, coVars, orVars, whVars>>
    /\ IF Falsy(lks[k].limit_activations)
          \/ get_activation_count(k) >= lks[k].limit_activations
         THEN Finish(w, Result("activate", k, "NotPermitted", 0))
         ELSE /\ lkw' = [lkw EXCEPT ![w] =
                           [pc |-> "activate_flush", key |-> k,
                            obj |-> cond, req |-> NoReq]]
              /\ UNCHANGED <<last, ncalls>>

\* The flush of activate: INSERT of the activation row.
ActivateFlush(w) ==
    /\ lkw[w].pc = "activate_flush"
    /\ Len(acts) < MaxActs
    /\ acts' = Append(acts, [license_key_id |-> lkw[w].key,
                             conditions |-> lkw[w].obj,
                             deleted |-> FALSE])
    /\ Finish(w, Result("activate", lkw[w].key, "ok", Len(acts) + 1))
    /\ UNCHANGED <<lks, now, credit, coVars, orVars, whVars>>

----------------------------------------------------------------------------
(* Checkout: catalogue *)

NoneS == "None"

\* Left unset in a request (exclude_unset)
Unset == -2

\* The products: organization and archival.
Products ==
    << [organization_id |-> 1, is_archived |-> FALSE],
       [organization_id |-> 1, is_archived |-> FALSE],
       [organization_id |-> 2, is_archived |-> FALSE],
       [organization_id |-> 1, is_archived |-> TRUE] >>

\* The prices: ProductPriceFixed, ProductPriceCustom and ProductPriceFree.
Prices ==
    << [type |-> "fixed", product_id |-> 1, is_archived |-> FALSE,
        is_recurring |-> FALSE, price_amount |-> 10, price_currency |-> "usd"],
       [type |-> "custom", product_id |-> 1, is_archived |-> FALSE,
        is_recurring |-> FALSE, price_amount |-> None,
        price_currency |-> "eur"],
       [type |-> "free", product_id |-> 1, is_archived |-> FALSE,
        is_recurring |-> TRUE, price_amount |-> None,
        price_currency |-> NoneS],
       [type |-> "fixed", product_id |-> 2, is_archived |-> FALSE,
        is_recurring |-> TRUE, price_amount |-> 20, price_currency |-> "usd"],
       [type |-> "fixed", product_id |-> 1, is_archived |-> TRUE,
        is_recurring |-> FALSE, price_amount |-> 30, price_currency |-> "usd"],
       [type |-> "fixed", product_id |-> 3, is_archived |-> FALSE,
        is_recurring |-> FALSE, price_amount |-> 40, price_currency |-> "usd"],
       [type |-> "fixed", product_id |-> 4, is_archived |-> FALSE,
        is_recurring |-> FALSE, price_amount |-> 50,
        price_currency |-> "usd"] >>

PriceIds == 1..Len(Prices)

\* The organization the caller of create may write to.
WritableOrg == 1

PriceOrg(p) == Products[Prices[p].product_id].organization_id

\* product_price_service.get_writable_by_id: the price id, or None.
get_writable_by_id(p) ==
    IF p \in PriceIds /\ PriceOrg(p) = WritableOrg THEN p ELSE None

\* product_price_service.get_by_id: the price id, or None.
get_price_by_id(p) == IF p \in PriceIds THEN p ELSE None

CheckoutIds == 1..Len(checkouts)

\* ResourceServiceReader.get: the checkout id, or None.
get_checkout(id) == IF id \in CheckoutIds THEN id ELSE None

----------------------------------------------------------------------------
(* Checkout: create *)

\* CheckoutCreate: product_price_id, amount and the customer fields.
CreateReqs ==
    { [product_price_id |-> p, amount |-> None, customer_name |-> None,
       customer_email |-> None, customer_billing_address |-> None,
       metadata |-> 0] : p \in {0, 1, 2, 3, 5, 6, 7} }
    \cup
    { [product_price_id |-> p, amount |-> 5, customer_name |-> None,
       customer_email |-> None, customer_billing_address |-> None,
       metadata |-> 0] : p \in {1, 2} }
    \cup
    { [product_price_id |-> 1, amount |-> None, customer_name |-> 1,
       customer_email |-> 1, customer_billing_address |-> 1,
       metadata |-> 1] }

\* A test that refuses an amount on a free price only.
is_not_free(p) == Prices[p].type # "free"

\* isinstance(price, ProductPriceCustom), the test an explicit amount must
\* pass in create and update
is_custom(p) == Prices[p].type = "custom"

\* The outcome of create: the exception raised ("ok" when none) and the
\* Checkout added to the session.
CreateOutcome(req, secret) ==
    LET p == get_writable_by_id(req.product_price_id) IN
    IF p = None
      THEN [exc |-> "PriceDoesNotExist", loc |-> "product_price_id"]
    ELSE IF Prices[p].is_archived
      THEN [exc |-> "PriceIsArchived", loc |-> "product_price_id"]
    ELSE IF Products[Prices[p].product_id].is_archived
      THEN [exc |-> "ProductIsArchived", loc |-> "product_price_id"]
    ELSE IF ~is_custom(p) /\ req.amount # None
      THEN [exc |-> "AmountOnlyOnCustom", loc |-> "amount"]
    ELSE
      [exc |-> "ok", loc |-> "",
       ck |-> [client_secret |-> secret,
               status |-> "open",
               amount |-> IF Prices[p].type = "fixed"
                            THEN Prices[p].price_amount ELSE req.amount,
               currency |-> IF Prices[p].type \in {"fixed", "custom"}
                              THEN Prices[p].price_currency ELSE NoneS,
               user_metadata |-> req.metadata,
               product_id |-> Prices[p].product_id,
               product_price_id |-> p,
               customer_billing_address |-> req.customer_billing_address,
               customer_name |-> req.customer_name,
               customer_email |-> req.customer_email,
               payment_processor |-> "stripe",
               payment_processor_metadata |-> 0]]

----------------------------------------------------------------------------
(* Checkout: update *)

NoUpdate ==
    [public |-> FALSE, product_price_id |-> None, amount |-> None,
     customer_billing_address |-> None, metadata |-> None,
     customer_name |-> Unset, customer_email |-> Unset]

\* CheckoutUpdate (public = FALSE) and CheckoutUpdatePublic requests.
CheckoutUpdates ==
    { [NoUpdate EXCEPT !.product_price_id = p] : p \in 0..6 }
    \cup
    { [NoUpdate EXCEPT !.amount = 5],
      [NoUpdate EXCEPT !.product_price_id = 2, !.amount = 5],
      [NoUpdate EXCEPT !.product_price_id = 1, !.amount = 5],
      [NoUpdate EXCEPT !.metadata = 2],
      [NoUpdate EXCEPT !.public = TRUE, !.metadata = 2],
      [NoUpdate EXCEPT !.customer_name = 2],
      [NoUpdate EXCEPT !.customer_email = None],
      [NoUpdate EXCEPT !.public = TRUE, !.customer_name = 1,
                       !.customer_email = 1,
                       !.customer_billing_address = 1] }

\* A price swap that copies from a fixed price and otherwise keeps what the
\* checkout had.
SetPriceOfFixedOnly(ck, p) ==
    IF Prices[p].type = "fixed"
      THEN [ck EXCEPT !.product_price_id = p,
                      !.amount = Prices[p].price_amount,
                      !.currency = Prices[p].price_currency]
      ELSE [ck EXCEPT !.product_price_id = p]

\* The price swap of update (product_price_id is set and accepted).
SetPrice(ck, p) ==
    LET ck1 == [ck EXCEPT !.product_price_id = p] IN
    IF Prices[p].type = "fixed"
      THEN [ck1 EXCEPT !.amount = Prices[p].price_amount,
                       !.currency = Prices[p].price_currency]
    ELSE IF Prices[p].type = "custom"
      THEN [ck1 EXCEPT !.currency = Prices[p].price_currency]
    ELSE [ck1 EXCEPT !.amount = None, !.currency = NoneS]

\* The fields of update that follow the price and the amount.
SetRest(ck, upd) ==
    [ck EXCEPT
       !.customer_billing_address =
           IF upd.customer_billing_address # None
             THEN upd.customer_billing_address ELSE @,
       !.user_metadata =
           IF ~upd.public /\ upd.metadata # None THEN upd.metadata ELSE @,
       !.customer_name =
           IF upd.customer_name # Unset THEN upd.customer_name ELSE @,
       !.customer_email =
           IF upd.customer_email # Unset THEN upd.customer_email ELSE @]

\* The outcome of update on the checkout object ck: the exception raised
\* ("ok" when none) and the object as the call leaves it.
UpdateOutcome(ck, upd) ==
    LET p == get_price_by_id(upd.product_price_id)
        swap == upd.product_price_id # None
        ck1 == IF swap /\ p # None THEN SetPrice(ck, p) ELSE ck
    IN
    IF swap /\ (p = None
                \/ PriceOrg(p) # Products[ck.product_id].organization_id)
      THEN [exc |-> "PriceDoesNotExist", loc |-> "product_price_id",
            ck |-> ck]
    ELSE IF swap /\ Prices[p].is_archived
      THEN [exc |-> "PriceIsArchived", loc |-> "product_price_id", ck |-> ck]
    ELSE IF swap /\ Prices[p].product_id # ck.product_id
      THEN [exc |-> "PriceNotOfProduct", loc |-> "product_price_id",
            ck |-> ck]
    ELSE IF upd.amount # None /\ ~is_custom(ck1.product_price_id)
      THEN [exc |-> "AmountOnlyOnCustom", loc |-> "amount", ck |-> ck1]
    ELSE
      [exc |-> "ok", loc |-> "",
       ck |-> SetRest(IF upd.amount # None
                        THEN [ck1 EXCEPT !.amount = upd.amount] ELSE ck1,
                      upd)]

----------------------------------------------------------------------------
(* Checkout: confirm *)

\* CheckoutConfirm requests: the public update fields (the confirmation
\* token is passed on to the processor).
CheckoutConfirms ==
    { u \in CheckoutUpdates : u.public }
    \cup
    { [NoUpdate EXCEPT !.public = TRUE],
      [NoUpdate EXCEPT !.public = TRUE, !.customer_name = 1],
      [NoUpdate EXCEPT !.public = TRUE, !.product_price_id = 2],
      [NoUpdate EXCEPT !.public = TRUE, !.amount = 5] }

\* A confirm that stops at the first requirement it finds violated.
MissingFieldsFirst(ck) ==
    IF ck.amount = None /\ Prices[ck.product_price_id].type = "custom"
      THEN {"amount"}
    ELSE IF ck.customer_name = None THEN {"customer_name"}
    ELSE IF ck.customer_email = None THEN {"customer_email"}
    ELSE IF ck.customer_billing_address = None
      THEN {"customer_billing_address"}
    ELSE {}

\* The requirements confirm finds violated on the updated checkout.
MissingFields(ck) ==
    (IF ck.amount = None /\ Prices[ck.product_price_id].type = "custom"
       THEN {"amount"} ELSE {})
    \cup (IF ck.customer_name = None THEN {"customer_name"} ELSE {})
    \cup (IF ck.customer_email = None THEN {"customer_email"} ELSE {})
    \cup (IF ck.customer_billing_address = None
            THEN {"customer_billing_address"} ELSE {})

\* A confirm that calls the processor before it raises the errors.
calls_processor_before_the_raise(ck, errors) ==
    ck.payment_processor = "stripe"

\* Whether confirm reaches create_customer and create_setup_intent: the
\* errors, if any, are raised first
calls_processor(ck, errors) ==
    errors = {} /\ ck.payment_processor = "stripe"

\* The outcome of confirm on the checkout object ck of row c; customer and
\* intent are the ids the processor gives the objects it creates.
ConfirmOutcome(c, ck, upd, customer, intent) ==
    LET u == UpdateOutcome(ck, upd) IN
    IF u.exc # "ok"
      THEN [exc |-> u.exc, loc |-> u.loc, ck |-> u.ck, errors |-> {},
            stripe |-> FALSE]
    ELSE IF MissingFields(u.ck) # {}
      THEN [exc |-> "MissingFields", loc |-> "", ck |-> u.ck,
            errors |-> MissingFields(u.ck),
            stripe |-> calls_processor(u.ck, MissingFields(u.ck))]
    ELSE
      [exc |-> "ok", loc |-> "", errors |-> {},
       stripe |-> calls_processor(u.ck, {}),
       ck |-> [u.ck EXCEPT
                 !.payment_processor_metadata =
                     IF u.ck.payment_processor = "stripe" THEN intent ELSE @,
                 !.status = "confirmed"]]

----------------------------------------------------------------------------
(* Checkout: external success callback *)

\* The setup intents the processor reports.
SetupIntentReports ==
    { [status |-> "succeeded", customer |-> 1, payment_method |-> 1],
      [status |-> "requires_action", customer |-> 1, payment_method |-> 1],
      [status |-> "succeeded", customer |-> None, payment_method |-> 1],
      [status |-> "succeeded", customer |-> 1, payment_method |-> None] }

\* idempotency_key = f"checkout_{checkout.id}"
\* A key derived from the product instead of the checkout.
idempotency_key_of_product(c, ck) == <<"checkout_", ck.product_id>>

idempotency_key(c, ck) == <<"checkout_", c>>

\* The status test of handle_stripe_success
\* A handler that lets every status through.
not_confirmed_never(ck) == FALSE

not_confirmed(ck) == ck.status # "confirmed"

\* A handler that looks at the setup intent before the status.
SuccessChecksIntentFirst(c, ck, si) ==
    IF c = None THEN "CheckoutDoesNotExist"
    ELSE IF si.status # "succeeded" THEN "SetupIntentNotSucceeded"
    ELSE IF si.customer = None THEN "NoCustomerOnSetupIntent"
    ELSE IF si.payment_method = None THEN "NoPaymentMethodOnSetupIntent"
    ELSE IF not_confirmed(ck) THEN "NotConfirmedCheckout"
    ELSE "ok"

\* The checks of handle_stripe_success on the loaded checkout ck (None when
\* the id matches no row): the exception raised, "ok" when none.
SuccessChecks(c, ck, si) ==
    IF c = None THEN "CheckoutDoesNotExist"
    ELSE IF not_confirmed(ck) THEN "NotConfirmedCheckout"
    ELSE IF si.status # "succeeded" THEN "SetupIntentNotSucceeded"
    ELSE IF si.customer = None THEN "NoCustomerOnSetupIntent"
    ELSE IF si.payment_method = None THEN "NoPaymentMethodOnSetupIntent"
    ELSE "ok"

\* The create_subscription or create_invoice call of handle_stripe_success;
\* checkout is the row the handler is running for.
ProcessorCall(c, ck, si) ==
    [kind |-> IF Prices[ck.product_price_id].is_recurring
                THEN "create_subscription" ELSE "create_invoice",
     customer |-> si.customer,
     currency |-> IF ck.currency = NoneS THEN "usd" ELSE ck.currency,
     default_payment_method |-> si.payment_method,
     price |-> ck.product_price_id,
     product_id |-> ck.product_id,
     idempotency_key |-> idempotency_key(c, ck),
     checkout |-> c]

\* The processor deduplicates creation calls by idempotency key: a call
\* whose key it has seen creates nothing.
ProcessorCreate(objects, call) ==
    IF \E o \in objects : o.idempotency_key = call.idempotency_key
      THEN objects
      ELSE objects \cup {call}

----------------------------------------------------------------------------
(* Checkout service calls, each run alone.  A call that raises leaves the  *)
(* tables as they were: its session is rolled back.  The object the call   *)
(* worked on keeps what the call assigned to it before it raised.          *)

\* CheckoutService.create
create(req) ==
    LET r == CreateOutcome(req, Len(checkouts) + 1) IN
    /\ Called
    /\ UNCHANGED <<stripeCustomers, setupIntents, stripeCalls, stripeObjects,
                   cow, lkVars, orVars, whVars>>
    /\ IF r.exc = "ok"
         THEN /\ Len(checkouts) < MaxCheckouts
              /\ checkouts' = Append(checkouts, r.ck)
              /\ checkout' = r.ck
              /\ last' = ResultReq("create", Len(checkouts) + 1, req, "ok",
                                   r.loc)
         ELSE /\ UNCHANGED checkouts
              /\ checkout' = None
              /\ last' = ResultReq("create", 0, req, r.exc, r.loc)

\* CheckoutService.update
checkout_update(c, upd) ==
    LET r == UpdateOutcome(checkouts[c], upd) IN
    /\ Called
    /\ UNCHANGED <<stripeCustomers, setupIntents, stripeCalls, stripeObjects,
                   cow, lkVars, orVars, whVars>>
    /\ checkouts' = IF r.exc = "ok" THEN [checkouts EXCEPT ![c] = r.ck]
                    ELSE checkouts
    /\ checkout' = r.ck
    /\ last' = ResultReq("update", c, upd, r.exc, r.loc)

\* CheckoutService.confirm
confirm(c, upd) ==
    LET customer == Len(stripeCustomers) + 1
        intent == Len(setupIntents) + 1
        r == ConfirmOutcome(c, checkouts[c], upd, customer, intent)
    IN
    /\ Called
    /\ UNCHANGED <<stripeCalls, stripeObjects, cow, lkVars, orVars, whVars>>
    /\ last' = ResultReq("confirm", c, upd, r.exc, r.errors)
    /\ checkouts' = IF r.exc = "ok" THEN [checkouts EXCEPT ![c] = r.ck]
                    ELSE checkouts
    /\ checkout' = r.ck
    /\ IF r.stripe
         THEN /\ stripeCustomers' =
                   Append(stripeCustomers,
                          [name |-> r.ck.customer_name,
                           email |-> r.ck.customer_email,
                           address |-> r.ck.customer_billing_address,
                           checkout |-> c])
              /\ setupIntents' =
                   Append(setupIntents,
                          [customer |-> customer, checkout_id |-> c])
         ELSE UNCHANGED <<stripeCustomers, setupIntents>>

\* CheckoutService.handle_stripe_success
handle_stripe_success(id, si) ==
    LET c == get_checkout(id)
        ck == IF c = None THEN NoUpdate ELSE checkouts[c]
        exc == SuccessChecks(c, ck, si)
        call == ProcessorCall(c, ck, si)
    IN
    /\ Called
    /\ UNCHANGED <<stripeCustomers, setupIntents, cow, lkVars, orVars, whVars>>
    /\ last' = ResultReq("handle_stripe_success", id, si, exc, 0)
    /\ IF exc = "ok"
         THEN /\ stripeCalls' = Append(stripeCalls, call)
              /\ stripeObjects' = ProcessorCreate(stripeObjects, call)
              /\ checkouts' = [checkouts EXCEPT ![c].status = "succeeded"]
         ELSE UNCHANGED <<checkouts, stripeCalls, stripeObjects>>
    /\ checkout' = IF c = None THEN None ELSE checkouts'[c]

----------------------------------------------------------------------------
(* Concurrent success callbacks: every delivery has its own session; it    *)
(* loads the checkout, checks it, calls the processor and writes the new   *)
(* status when the session is flushed.                                     *)

IdleCo == [pc |-> "idle", id |-> 0, ck |-> 0, si |-> 0]

IdleCallbacks == [w \in Workers |-> IdleCo]

BusyCo == Cardinality({w \in Workers : cow[w].pc # "idle"})

FinishCo(w, r) ==
    /\ cow' = [cow EXCEPT ![w] = IdleCo]
    /\ last' = r
    /\ ncalls' = ncalls + 1

\* handle_stripe_success up to the processor call
SuccessLoad(w, id, si) ==
    LET c == get_checkout(id)
        ck == IF c = None THEN NoUpdate ELSE checkouts[c]
        exc == SuccessChecks(c, ck, si)
    IN
    /\ cow[w].pc = "idle"
    /\ ncalls + BusyCo < MaxReqs
    /\ UNCHANGED <<checkouts, checkout, stripeCustomers, setupIntents,
                   stripeCalls, stripeObjects, lkVars, orVars, whVars>>
    /\ IF exc # "ok"
         THEN FinishCo(w, ResultReq("handle_stripe_success", id, si, exc, 0))
         ELSE /\ cow' = [cow EXCEPT ![w] =
                           [pc |-> "call", id |-> c, ck |-> ck, si |-> si]]
              /\ UNCHANGED <<last, ncalls>>

\* The processor call of handle_stripe_success
SuccessCall(w) ==
    LET call == ProcessorCall(cow[w].id, cow[w].ck, cow[w].si) IN
    /\ cow[w].pc = "call"
    /\ stripeCalls' = Append(stripeCalls, call)
    /\ stripeObjects' = ProcessorCreate(stripeObjects, call)
    /\ cow' = [cow EXCEPT ![w].pc = "flush"]
    /\ UNCHANGED <<checkouts, checkout, stripeCustomers, setupIntents,
                   lkVars, orVars, last, ncalls, whVars>>

\* The flush of handle_stripe_success: UPDATE of the status.
SuccessFlush(w) ==
    /\ cow[w].pc = "flush"
    /\ checkouts' = [checkouts EXCEPT ![cow[w].id].status = "succeeded"]
    /\ FinishCo(w, ResultReq("handle_stripe_success", cow[w].id, cow[w].si,
                             "ok", 0))
    /\ UNCHANGED <<checkout, stripeCustomers, setupIntents, stripeCalls,
                   stripeObjects,
                   lkVars, orVars, whVars>>

----------------------------------------------------------------------------
(* Order reconciler: create_order_from_stripe.  Every delivery of an       *)
(* external payment event runs in its own transaction; the orders table    *)
(* has a uniqueness constraint on the external event id.                   *)

\* The external payment events: product type of the metadata, number of
\* non-proration lines, charge reference, amount paid and subscription.
InvoiceShapes ==
    { [type |-> "product", lines |-> 1, charge |-> 1, amount_paid |-> 100,
       subscription |-> None],
      [type |-> "product", lines |-> 1, charge |-> 1, amount_paid |-> 100,
       subscription |-> 1],
      [type |-> "pledge", lines |-> 1, charge |-> 1, amount_paid |-> 100,
       subscription |-> None],
      [type |-> "product", lines |-> 2, charge |-> 1, amount_paid |-> 100,
       subscription |-> None],
      [type |-> "product", lines |-> 1, charge |-> None, amount_paid |-> 100,
       subscription |-> None],
      [type |-> "product", lines |-> 1, charge |-> None, amount_paid |-> 0,
       subscription |-> None] }

\* The checks that precede the creation of the Order: the exception raised,
\* "ok" when none.
InvoiceChecks(shape) ==
    IF shape.type # "product" THEN "NotAnOrderInvoice"
    ELSE IF shape.lines # 1 THEN "CantDetermineInvoicePrice"
    ELSE IF shape.charge = None /\ shape.amount_paid > 0
      THEN "InvoiceWithoutCharge"
    ELSE "ok"

\* The uniqueness constraint on stripe_invoice_id
\* A table without the constraint.
unique_violation_never(tbl, id) == FALSE

unique_violation(tbl, id) ==
    \E i \in 1..Len(tbl) : tbl[i].stripe_invoice_id = id

\* A fan-out that grants the benefits for every order.
OrderJobsOfAnyOrder(order_id, order) ==
    << [name |-> "order.discord_notification", order_id |-> order_id],
       [name |-> "benefit.enqueue_benefits_grants", task |-> "grant",
        user_id |-> order.user_id, product_id |-> order.product_id,
        order_id |-> order_id] >>

\* The jobs a reconciliation enqueues once its order is committed
OrderJobs(order_id, order) ==
    << [name |-> "order.discord_notification", order_id |-> order_id] >>
    \o (IF order.subscription = None
          THEN << [name |-> "benefit.enqueue_benefits_grants",
                   task |-> "grant",
                   user_id |-> order.user_id,
                   product_id |-> order.product_id,
                   order_id |-> order_id] >>
          ELSE << >>)

\* A reconciliation that enqueues its jobs as soon as the row is inserted.
jobs_with_the_insert(order_id, order) ==
    << [name |-> "order.discord_notification", order_id |-> order_id] >>

\* The jobs a reconciliation enqueues while its row is inserted and not
\* yet committed: none
jobs_before_commit(order_id, order) == << >>

\* The Order row of a delivery of the concurrent reconciliations
OrderRow(id, shape) ==
    [stripe_invoice_id |-> id,
     subscription |-> shape.subscription,
     charge |-> shape.charge,
     user_id |-> 1,
     product_id |-> 1]

IdleOr == [pc |-> "idle", id |-> 0, shape |-> 0, order_id |-> 0]

IdleReconcilers == [w \in Workers |-> IdleOr]

BusyOr == Cardinality({w \in Workers : orw[w].pc # "idle"})

FinishOr(w, r) ==
    /\ orw' = [orw EXCEPT ![w] = IdleOr]
    /\ last' = r
    /\ ncalls' = ncalls + 1

\* The event is received and checked.
ReconcileCheck(w, id, shape) ==
    LET exc == InvoiceChecks(shape) IN
    /\ orw[w].pc = "idle"
    /\ ncalls + BusyOr < MaxReqs
    /\ UNCHANGED <<orders, jobs, ledger, lkVars, coVars, whVars>>
    /\ IF exc # "ok"
         THEN FinishOr(w, Result("create_order_from_stripe", id, exc, 0))
         ELSE /\ orw' = [orw EXCEPT ![w] =
                           [pc |-> "insert", id |-> id, shape |-> shape,
                            order_id |-> 0]]
              /\ UNCHANGED <<last, ncalls>>

\* The Order row is inserted in the transaction.  The insert waits for a
\* transaction that has inserted the same event id and not yet ended, and
\* fails when a committed row carries the id.
ReconcileInsert(w) ==
    /\ orw[w].pc = "insert"
    /\ \A v \in Workers \ {w} :
          ~(orw[v].pc = "commit" /\ orw[v].id = orw[w].id)
    /\ UNCHANGED <<orders, ledger, lkVars, coVars, whVars>>
    /\ IF unique_violation(orders, orw[w].id)
         THEN /\ FinishOr(w, Result("create_order_from_stripe", orw[w].id,
                                    "IntegrityError", 0))
              /\ UNCHANGED jobs
         ELSE /\ orw' = [orw EXCEPT ![w].pc = "commit"]
              /\ jobs' = jobs \o jobs_before_commit(
                                    Len(orders) + 1,
                                    OrderRow(orw[w].id, orw[w].shape))
              /\ UNCHANGED <<last, ncalls>>

\* The transaction commits: the Order row becomes durable.
ReconcileCommit(w) ==
    /\ orw[w].pc = "commit"
    /\ orders' = Append(orders, OrderRow(orw[w].id, orw[w].shape))
    /\ orw' = [orw EXCEPT ![w].pc = "enqueue",
                          ![w].order_id = Len(orders) + 1]
    /\ UNCHANGED <<jobs, ledger, lkVars, coVars, last, ncalls, whVars>>

\* The fan-out jobs are enqueued after the commit.
ReconcileEnqueue(w) ==
    /\ orw[w].pc = "enqueue"
    /\ jobs' = jobs \o OrderJobs(orw[w].order_id, orders[orw[w].order_id])
    /\ FinishOr(w, Result("create_order_from_stripe", orw[w].id, "ok",
                          orw[w].order_id))
    /\ UNCHANGED <<orders, ledger, lkVars, coVars, whVars>>

----------------------------------------------------------------------------
(* Order reconciler, one delivery at a time: the resolution of the price   *)
(* and of the charge, the Order row and the routing of the revenue.        *)

\* The ids of the external payment events of the one-at-a-time deliveries;
\* the charge of event id, when it has one, is charge id.
EventIds == {1, 2}

\* The payment transactions the charges have left, none linked to an order,
\* and no held balance, balance transfer or fee reversal.
NoLedger ==
    [payments |-> [c \in EventIds |-> [amount |-> 100, order_id |-> None]],
     held |-> << >>,
     balances |-> << >>,
     reversals |-> << >>]

\* The prices the references 1 and 2 name, of organizations 1 and 2; the
\* references 8 and 9 name no price.
OrderPrices ==
    << [organization_id |-> 1, product_id |-> 1, type |-> "fixed"],
       [organization_id |-> 2, product_id |-> 2, type |-> "free"] >>

\* product_price_service.get_by_stripe_price_id and get_by_id
get_price(ref) == IF ref \in 1..Len(OrderPrices) THEN ref ELSE None

Line(price, proration) == [price |-> price, proration |-> proration]

\* construct_stripe_invoice with its defaults: one line, charge, subscription
DefaultInvoice ==
    [type |-> "product", lines |-> << Line(1, FALSE) >>, override |-> None,
     total |-> 120, tax |-> 20, amount_paid |-> 120, charge |-> TRUE,
     payment_intent |-> FALSE, subscription |-> 1]

\* The external payment events of the tests and their neighbours.
Invoices ==
    { DefaultInvoice,
      [DefaultInvoice EXCEPT !.tax = None, !.amount_paid = 120],
      [DefaultInvoice EXCEPT !.type = "pledge"],
      [DefaultInvoice EXCEPT !.lines = << >>],
      [DefaultInvoice EXCEPT !.lines = << Line(1, FALSE), Line(2, FALSE) >>],
      [DefaultInvoice EXCEPT !.lines = << Line(8, FALSE) >>],
      [DefaultInvoice EXCEPT
          !.lines = << Line(8, TRUE), Line(9, TRUE), Line(1, FALSE) >>],
      [DefaultInvoice EXCEPT
          !.lines = << Line(8, TRUE), Line(2, FALSE) >>,
          !.subscription = None],
      [DefaultInvoice EXCEPT !.lines = << Line(8, TRUE), Line(9, TRUE) >>],
      [DefaultInvoice EXCEPT !.lines = << Line(8, TRUE), Line(9, TRUE) >>,
                             !.override = 1],
      [DefaultInvoice EXCEPT !.lines = << Line(8, TRUE) >>, !.override = 9],
      [DefaultInvoice EXCEPT !.charge = FALSE],
      [DefaultInvoice EXCEPT !.lines = << Line(8, TRUE), Line(9, TRUE) >>,
                             !.override = 1, !.charge = FALSE,
                             !.amount_paid = 0],
      [DefaultInvoice EXCEPT !.lines = << Line(2, FALSE) >>,
                             !.charge = FALSE, !.total = 0, !.tax = 0,
                             !.amount_paid = 0, !.subscription = None],
      [DefaultInvoice EXCEPT !.charge = FALSE, !.payment_intent = TRUE,
                             !.subscription = None] }

\* The lines that are not proration adjustments
NonProrationLines(invoice) ==
    SelectSeq(invoice.lines, LAMBDA l : ~l.proration)

\* A resolver that counts the proration lines with the others.
get_invoice_price_of_all_lines(invoice) ==
    IF Len(invoice.lines) = 1
      THEN [exc |-> IF get_price(invoice.lines[1].price) = None
                      THEN "ProductPriceDoesNotExist" ELSE "ok",
            price |-> get_price(invoice.lines[1].price)]
    ELSE IF Len(invoice.lines) = 0 /\ invoice.override # None
      THEN [exc |-> IF get_price(invoice.override) = None
                      THEN "ProductPriceDoesNotExist" ELSE "ok",
            price |-> get_price(invoice.override)]
    ELSE [exc |-> "CantDetermineInvoicePrice", price |-> None]

\* A resolver that takes the first line when several are left.
get_invoice_price_of_first_line(invoice) ==
    LET lines == NonProrationLines(invoice)
        price == IF Len(lines) >= 1 THEN get_price(lines[1].price)
                 ELSE get_price(invoice.override)
    IN
    IF Len(lines) = 0 /\ invoice.override = None
      THEN [exc |-> "CantDetermineInvoicePrice", price |-> None]
    ELSE IF price = None
      THEN [exc |-> "ProductPriceDoesNotExist", price |-> None]
    ELSE [exc |-> "ok", price |-> price]

\* The price of the event: that of its only non-proration line, or the one
\* the subscription metadata names when no such line is left.
get_invoice_price(invoice) ==
    LET lines == NonProrationLines(invoice)
        price == IF Len(lines) = 1 THEN get_price(lines[1].price)
                 ELSE get_price(invoice.override)
    IN
    IF Len(lines) # 1 /\ ~(Len(lines) = 0 /\ invoice.override # None)
      THEN [exc |-> "CantDetermineInvoicePrice", price |-> None]
    ELSE IF price = None
      THEN [exc |-> "ProductPriceDoesNotExist", price |-> None]
    ELSE [exc |-> "ok", price |-> price]

\* The charge of the event: invoice.charge, or the latest charge of the
\* payment intent its metadata names, or None.
get_charge(id, invoice) ==
    IF invoice.charge \/ invoice.payment_intent THEN id ELSE None

\* A charge check that lets every event without a charge through.
charge_missing_never(charge, invoice) == FALSE

\* InvoiceWithoutCharge: no charge although something was paid
charge_missing(charge, invoice) ==
    charge = None /\ invoice.amount_paid > 0

\* The checks that precede the Order row of a one-at-a-time delivery.
ReconcileChecks(tbl, id, invoice) ==
    IF invoice.type # "product" THEN "NotAnOrderInvoice"
    ELSE IF get_invoice_price(invoice).exc # "ok"
      THEN get_invoice_price(invoice).exc
    ELSE IF charge_missing(get_charge(id, invoice), invoice)
      THEN "InvoiceWithoutCharge"
    ELSE IF unique_violation(tbl, id) THEN "IntegrityError"
    ELSE "ok"

\* The Order row of the event
OrderOf(id, invoice) ==
    [stripe_invoice_id |-> id,
     subscription |-> invoice.subscription,
     charge |-> get_charge(id, invoice),
     amount |-> invoice.total
                  - (IF invoice.tax = None THEN 0 ELSE invoice.tax),
     product_price_id |-> get_invoice_price(invoice).price,
     user_id |-> 1,
     product_id |-> OrderPrices[get_invoice_price(invoice).price].product_id,
     organization_id |->
         OrderPrices[get_invoice_price(invoice).price].organization_id]

\* A routing that leaves the payment transaction of a held payment alone.
route_without_link_when_held(ldg, order_id, order, account) ==
    IF account # None
      THEN [ldg EXCEPT
              !.payments[order.charge].order_id = order_id,
              !.balances = Append(@,
                  [destination_account |-> account,
                   charge_id |-> order.charge,
                   amount |-> ldg.payments[order.charge].amount]),
              !.reversals = Append(@, order.charge)]
      ELSE [ldg EXCEPT
              !.held = Append(@,
                  [organization_id |-> order.organization_id,
                   order_id |-> order_id, charge_id |-> order.charge])]

\* The routing of the revenue of a charge: to the account of the
\* organization (None when it has none) or to a held balance; the payment
\* transaction of the charge is linked to the order.
route(ldg, order_id, order, account) ==
    LET linked == [ldg EXCEPT !.payments[order.charge].order_id = order_id]
    IN
    IF account # None
      THEN [linked EXCEPT
              !.balances = Append(@,
                  [destination_account |-> account,
                   charge_id |-> order.charge,
                   amount |-> ldg.payments[order.charge].amount]),
              !.reversals = Append(@, order.charge)]
      ELSE [linked EXCEPT
              !.held = Append(@,
                  [organization_id |-> order.organization_id,
                   order_id |-> order_id, charge_id |-> order.charge])]

\* OrderService.create_order_from_stripe, a whole delivery
create_order_from_stripe(id, invoice, account) ==
    LET exc == ReconcileChecks(orders, id, invoice)
        order_id == Len(orders) + 1
        order == OrderOf(id, invoice)
    IN
    /\ Called
    /\ UNCHANGED <<orw, lkVars, coVars, whVars>>
    /\ IF exc # "ok"
         THEN /\ UNCHANGED <<orders, jobs, ledger>>
              /\ last' = ResultReq("create_order_from_stripe", id,
                                   [invoice |-> invoice, account |-> account],
                                   exc, 0)
         ELSE /\ orders' = Append(orders, order)
              /\ ledger' = IF order.charge # None
                             THEN route(ledger, order_id, order, account)
                             ELSE ledger
              /\ jobs' = jobs \o OrderJobs(order_id, order)
              /\ last' = ResultReq("create_order_from_stripe", id,
                                   [invoice |-> invoice, account |-> account],
                                   "ok", order_id)

----------------------------------------------------------------------------
(* Initial values of the parts a specification leaves alone *)

NoLicenseKeys ==
    /\ lks = << >>
    /\ acts = << >>
    /\ now = 0
    /\ lkw = IdleWorkers
    /\ credit = 0

NoCheckouts ==
    /\ checkouts = << >>
    /\ checkout = None
    /\ stripeCustomers = << >>
    /\ setupIntents = << >>
    /\ stripeCalls = << >>
    /\ stripeObjects = {}
    /\ cow = IdleCallbacks

NoOrders ==
    /\ orders = << >>
    /\ jobs = << >>
    /\ orw = IdleReconcilers
    /\ ledger = NoLedger

----------------------------------------------------------------------------
(* Webhook dispatcher (polar/webhook/service.py)                            *)

WebhookEventTypes == {"order.created", "checkout.updated"}

Formats == {"raw", "discord"}

\* The targets of a payload and the subjects of a request: user 1 and
\* organization 1; user 1 can write organization 1 and not organization 2.
\* User 2 is a member of organization 1 who cannot write it.
UserSubject == [kind |-> "user", id |-> 1]
OrganizationTarget == [kind |-> "organization", id |-> 1]
MemberSubject == [kind |-> "user", id |-> 2]

SendTargets == {UserSubject, OrganizationTarget}

Subjects == {UserSubject, MemberSubject, OrganizationTarget}

\* The user_organizations rows that are not deleted: <<user, organization>>
UserOrganizations == { <<1, 1>>, <<2, 1>> }

\* authz.can(subject, AccessType.write, organization)
can_write_organization(subject, org) ==
    \/ subject.kind = "user" /\ subject.id = 1 /\ org = 1
    \/ subject.kind = "organization" /\ subject.id = org

\* The payloads: the event type, and the signal that get_payload raises for
\* an endpoint whose format is not raw ("none": it serialises for all).
Payloads ==
    { [type |-> "order.created", signal |-> g] :
        g \in {"none", "UnsupportedTarget", "SkipEvent"} }
    \cup { [type |-> "checkout.updated", signal |-> "none"] }

\* BaseWebhookPayload.get_payload: "ok" when the payload serialises in the
\* format, or the signal raised.
get_payload(payload, format, target) ==
    IF format # "raw" /\ payload.signal # "none" THEN payload.signal
    ELSE "ok"

EndpointIds == 1..Len(webhook_endpoints)

\* A query that forgets the deleted_at filter.
get_event_target_endpoints_with_deleted(event, target) ==
    { e \in EndpointIds :
        /\ event \in webhook_endpoints[e].events
        /\ IF target.kind = "organization"
             THEN webhook_endpoints[e].organization_id = target.id
             ELSE webhook_endpoints[e].user_id = target.id }

\* _get_event_target_endpoints: the endpoints that are not deleted, whose
\* events contain the event type and that the target owns.
get_event_target_endpoints(event, target) ==
    { e \in EndpointIds :
        /\ ~webhook_endpoints[e].deleted
        /\ event \in webhook_endpoints[e].events
        /\ IF target.kind = "organization"
             THEN webhook_endpoints[e].organization_id = target.id
             ELSE webhook_endpoints[e].user_id = target.id }

\* The WebhookEndpointCreate requests of user 1: organization_id unset, or
\* the id of an organization; the subscribed events and the format.
EndpointCreates ==
    { [organization_id |-> o, events |-> c[1], format |-> c[2]] :
        o \in {None, 1, 2},
        c \in { <<WebhookEventTypes, "raw">>,
                <<WebhookEventTypes, "discord">>,
                <<{"checkout.updated"}, "raw">> } }

\* An owner assignment that always records the creating user.
endpoint_owner_with_creator(subject, schema) ==
    [organization_id |->
         IF schema.organization_id # None THEN schema.organization_id
         ELSE IF subject.kind = "organization" THEN subject.id ELSE None,
     user_id |-> IF subject.kind = "user" THEN subject.id ELSE None]

\* The owner columns create_endpoint gives the new endpoint: those of the
\* subject when organization_id is unset, the organization otherwise.
endpoint_owner(subject, schema) ==
    IF schema.organization_id = None
      THEN [organization_id |->
                IF subject.kind = "organization" THEN subject.id ELSE None,
            user_id |->
                IF subject.kind = "user" THEN subject.id ELSE None]
      ELSE [organization_id |-> schema.organization_id, user_id |-> None]

\* WebhookService.create_endpoint
create_endpoint(subject, schema) ==
    LET owner == endpoint_owner(subject, schema) IN
    /\ Called
    /\ UNCHANGED <<webhook_events, whJobs, whs, lkVars, coVars, orVars>>
    /\ IF /\ schema.organization_id # None
          /\ ~can_write_organization(subject, schema.organization_id)
         THEN /\ UNCHANGED webhook_endpoints
              /\ last' = Result("create_endpoint", 0,
                                "PolarRequestValidationError", 0)
         ELSE /\ webhook_endpoints' = Append(webhook_endpoints,
                    [organization_id |-> owner.organization_id,
                     user_id |-> owner.user_id,
                     events |-> schema.events,
                     format |-> schema.format,
                     deleted |-> FALSE])
              /\ last' = Result("create_endpoint",
                                Len(webhook_endpoints) + 1, "ok", 0)

\* authz.can(subject, AccessType.write, endpoint): a user writes the
\* endpoints they own and those of the organizations they can write, an
\* organization its own.
authz_can_write_endpoint(subject, e) ==
    IF subject.kind = "user"
      THEN \/ webhook_endpoints[e].user_id = subject.id
           \/ /\ webhook_endpoints[e].organization_id # None
              /\ can_write_organization(subject,
                                        webhook_endpoints[e].organization_id)
      ELSE webhook_endpoints[e].organization_id = subject.id

\* A check that lets every caller write.
can_write_endpoint_always(subject, e) == "ok"

\* _can_write_endpoint: the exception it raises ("ok" when none)
can_write_endpoint(subject, e) ==
    IF ~authz_can_write_endpoint(subject, e) THEN "NotPermitted" ELSE "ok"

\* The readable endpoints with the ownership and membership test left out.
get_all_endpoints(subject) ==
    { e \in EndpointIds : ~webhook_endpoints[e].deleted }

\* The readable endpoints with the deleted_at filter left out.
get_readable_endpoints_with_deleted(subject) ==
    { e \in EndpointIds :
        IF subject.kind = "user"
          THEN \/ webhook_endpoints[e].user_id = subject.id
               \/ <<subject.id, webhook_endpoints[e].organization_id>>
                     \in UserOrganizations
          ELSE webhook_endpoints[e].organization_id = subject.id }

\* _get_readable_endpoints_statement: the endpoints that are not deleted
\* and, for a user, are owned by the user or by an organization the user is
\* a member of; for an organization, are owned by it.
get_readable_endpoints(subject) ==
    { e \in EndpointIds :
        /\ ~webhook_endpoints[e].deleted
        /\ IF subject.kind = "user"
             THEN \/ webhook_endpoints[e].user_id = subject.id
                  \/ <<subject.id, webhook_endpoints[e].organization_id>>
                        \in UserOrganizations
             ELSE webhook_endpoints[e].organization_id = subject.id }

\* The WebhookEndpointUpdate requests: the fields that are set and not None.
EndpointUpdates ==
    { [f \in {"format"} |-> "discord"],
      [f \in {"events"} |-> {"order.created"}] }

\* WebhookService.update_endpoint, on an endpoint that is not deleted
update_endpoint(subject, e, schema) ==
    LET exc == can_write_endpoint(subject, e) IN
    /\ ~webhook_endpoints[e].deleted
    /\ Called
    /\ UNCHANGED <<webhook_events, whJobs, whs, lkVars, coVars, orVars>>
    /\ last' = Result("update_endpoint", e, exc, 0)
    /\ IF exc # "ok"
         THEN UNCHANGED webhook_endpoints
         ELSE webhook_endpoints' =
                [webhook_endpoints EXCEPT ![e] = SetAttrs(@, schema)]

\* WebhookService.delete_endpoint, on an endpoint that is not deleted
delete_endpoint(subject, e) ==
    LET exc == can_write_endpoint(subject, e) IN
    /\ ~webhook_endpoints[e].deleted
    /\ Called
    /\ UNCHANGED <<webhook_events, whJobs, whs, lkVars, coVars, orVars>>
    /\ last' = Result("delete_endpoint", e, exc, 0)
    /\ IF exc # "ok"
         THEN UNCHANGED webhook_endpoints
         ELSE webhook_endpoints' =
                [webhook_endpoints EXCEPT ![e].deleted = TRUE]

\* The event of the id whose endpoint the subject can read, or None
get_readable_event(subject, id) ==
    IF /\ id \in 1..Len(webhook_events)
       /\ webhook_events[id].webhook_endpoint_id
             \in get_readable_endpoints(subject)
    THEN id ELSE None

\* WebhookService.redeliver_event
redeliver_event(subject, id) ==
    LET event == get_readable_event(subject, id)
        exc == IF event = None THEN "ResourceNotFound"
               ELSE can_write_endpoint(subject,
                        webhook_events[event].webhook_endpoint_id)
    IN
    /\ Called
    /\ UNCHANGED <<webhook_endpoints, webhook_events, whs, lkVars, coVars,
                   orVars>>
    /\ last' = ResultReq("redeliver_event", id, subject, exc, 0)
    /\ IF exc # "ok"
         THEN UNCHANGED whJobs
         ELSE whJobs' = Append(whJobs, [name |-> "webhook_event.send",
                                        webhook_event_id |-> event])

\* No send_payload call is running.
IdleSend == [pc |-> "idle", target |-> UserSubject,
             payload |-> [type |-> "order.created", signal |-> "none"],
             todo |-> {}, cur |-> 0, events |-> << >>, visited |-> << >>,
             base |-> 0]

\* A handler that gives up the loop.
abort_on_signal(rest) == {}

\* except UnsupportedTarget / except SkipEvent: continue with the endpoints
\* that are left.
continue_on_signal(rest) == rest

\* send_payload is called: the endpoints of the target are queried.  The
\* call keeps the endpoints it has visited, in order, and the number of
\* WebhookEvent rows there were when it began.
SendQuery(target, payload) ==
    /\ whs.pc = "idle"
    /\ ncalls < MaxCalls
    /\ whs' = [pc |-> "loop", target |-> target, payload |-> payload,
               todo |-> get_event_target_endpoints(payload.type, target),
               cur |-> 0, events |-> << >>, visited |-> << >>,
               base |-> Len(webhook_events)]
    /\ UNCHANGED <<webhook_endpoints, webhook_events, whJobs, lkVars,
                   coVars, orVars, last, ncalls>>

\* The next endpoint of the result (the query has no ORDER BY: any of
\* those left) is taken and the payload is serialised in its format.
SendSerialize(e) ==
    LET r == get_payload(whs.payload, webhook_endpoints[e].format,
                         whs.target)
    IN
    /\ whs.pc = "loop"
    /\ e \in whs.todo
    /\ whs' = IF r = "ok"
                THEN [whs EXCEPT !.pc = "persist", !.cur = e,
                                 !.visited = Append(@, e)]
                ELSE [whs EXCEPT !.todo = continue_on_signal(@ \ {e}),
                                 !.visited = Append(@, e)]
    /\ UNCHANGED <<webhook_endpoints, webhook_events, whJobs, lkVars,
                   coVars, orVars, last, ncalls>>

\* session.add(event_type); events.append(event_type); session.flush()
SendPersist ==
    /\ whs.pc = "persist"
    /\ webhook_events' = Append(webhook_events,
           [webhook_endpoint_id |-> whs.cur,
            payload |-> <<webhook_endpoints[whs.cur].format,
                          whs.payload.type>>])
    /\ whs' = [whs EXCEPT !.pc = "enqueue",
                          !.events = Append(@, Len(webhook_events) + 1)]
    /\ UNCHANGED <<webhook_endpoints, whJobs, lkVars, coVars, orVars,
                   last, ncalls>>

\* enqueue_job("webhook_event.send", webhook_event_id=event_type.id)
SendEnqueue ==
    /\ whs.pc = "enqueue"
    /\ whJobs' = Append(whJobs,
           [name |-> "webhook_event.send",
            webhook_event_id |-> whs.events[Len(whs.events)]])
    /\ whs' = [whs EXCEPT !.pc = "loop", !.todo = @ \ {whs.cur}]
    /\ UNCHANGED <<webhook_endpoints, webhook_events, lkVars, coVars,
                   orVars, last, ncalls>>

\* return events
SendReturn ==
    /\ whs.pc = "loop"
    /\ whs.todo = {}
    /\ whs' = IdleSend
    /\ last' = ResultReq("send_payload", 0,
                         [target |-> whs.target, payload |-> whs.payload,
                          events |-> whs.events, visited |-> whs.visited,
                          base |-> whs.base],
                         "ok", 0)
    /\ ncalls' = ncalls + 1
    /\ UNCHANGED <<webhook_endpoints, webhook_events, whJobs, lkVars,
                   coVars, orVars>>

NoWebhooks ==
    /\ webhook_endpoints = << >>
    /\ webhook_events = << >>
    /\ whJobs = << >>
    /\ whs = IdleSend

----------------------------------------------------------------------------
(* Specification of the checkout state machine, one call at a time *)

InitCheckout ==
    /\ NoLicenseKeys
    /\ NoCheckouts
    /\ NoOrders
    /\ NoWebhooks
    /\ last = NoLast
    /\ ncalls = 0

CreateCheckout == \E r \in CreateReqs : create(r)

UpdateCheckout ==
    \E c \in CheckoutIds, u \in CheckoutUpdates : checkout_update(c, u)

ConfirmCheckout ==
    \E c \in CheckoutIds, u \in CheckoutConfirms : confirm(c, u)

SuccessCallback ==
    \E id \in 1..(MaxCheckouts + 1), si \in SetupIntentReports :
        handle_stripe_success(id, si)

NextCheckout ==
    \/ CreateCheckout
    \/ UpdateCheckout
    \/ ConfirmCheckout
    \/ SuccessCallback

SpecCheckout == InitCheckout /\ [][NextCheckout]_vars

----------------------------------------------------------------------------
(* Specification of concurrent success callbacks for confirmed checkouts *)

\* The request that creates a checkout of price p with its customer fields
FullCreate(p) ==
    [product_price_id |-> p, amount |-> None, customer_name |-> 1,
     customer_email |-> 1, customer_billing_address |-> 1, metadata |-> 0]

\* The checkout row c after create for price p and confirm
Confirmed(c, p) ==
    ConfirmOutcome(c, CreateOutcome(FullCreate(p), c).ck,
                   [NoUpdate EXCEPT !.public = TRUE], c, c).ck

InitCheckoutConc ==
    /\ NoLicenseKeys
    /\ NoOrders
    /\ \E ps \in [1..ConcCheckouts -> {1, 3, 4}] :
          checkouts = [c \in 1..ConcCheckouts |-> Confirmed(c, ps[c])]
    /\ checkout = None
    /\ stripeCustomers =
          [c \in 1..ConcCheckouts |->
              [name |-> 1, email |-> 1, address |-> 1, checkout |-> c]]
    /\ setupIntents =
          [c \in 1..ConcCheckouts |-> [customer |-> c, checkout_id |-> c]]
    /\ stripeCalls = << >>
    /\ stripeObjects = {}
    /\ cow = IdleCallbacks
    /\ NoWebhooks
    /\ last = NoLast
    /\ ncalls = 0

StartSuccess ==
    \E w \in Workers, id \in 1..(ConcCheckouts + 1),
       si \in SetupIntentReports :
        SuccessLoad(w, id, si)

CallProcessor == \E w \in Workers : SuccessCall(w)

EndSuccess == \E w \in Workers : SuccessFlush(w)

NextCheckoutConc ==
    \/ StartSuccess
    \/ CallProcessor
    \/ EndSuccess

SpecCheckoutConc == InitCheckoutConc /\ [][NextCheckoutConc]_vars

----------------------------------------------------------------------------
(* Specification of the license key engine, one call at a time *)

InitLK ==
    /\ NoLicenseKeys
    /\ NoCheckouts
    /\ NoOrders
    /\ NoWebhooks
    /\ last = NoLast
    /\ ncalls = 0

\* The grant jobs: user 1 is granted the benefit (first grant, or update of a
\* prior grant); a grant for user 2 naming a prior license key id.
GrantReqs ==
    { <<u, id>> \in Users \X ({None} \cup 1..MaxKeys) : u = 1 \/ id # None }

Grant ==
    \E r \in GrantReqs, b \in Benefits, p \in PropsSet :
        /\ r[2] = None => Len(lks) < MaxKeys
        /\ user_grant(r[1], b, p, r[2])

Validate == \E k \in KeyIds, v \in ValidateReqs : validate(k, v)

Activate == \E k \in KeyIds, c \in Conds : activate(k, c)

Deactivate == \E k \in KeyIds, a \in 1..MaxActs : deactivate(k, a)

Update == \E k \in KeyIds, u \in Updates : update(k, u)

Revoke ==
    \E u \in Users, b \in Benefits, id \in 1..MaxKeys : user_revoke(u, b, id)

NextLK ==
    \/ Grant
    \/ Validate
    \/ Activate
    \/ Deactivate
    \/ Update
    \/ Revoke
    \/ Tick

SpecLK == InitLK /\ [][NextLK]_vars

----------------------------------------------------------------------------
(* Specification of concurrent validate and activate requests on the key   *)
(* of a first grant                                                        *)

InitLKConc ==
    /\ now = 0
    /\ \E p \in PropsSet : lks = << Build(1, 1, p, 1) >>
    /\ acts = << >>
    /\ lkw = IdleWorkers
    /\ credit = 0
    /\ NoCheckouts
    /\ NoOrders
    /\ NoWebhooks
    /\ last = NoLast
    /\ ncalls = 0

\* The concurrent validate requests name the key alone.
ConcValidateReqs ==
    { v \in ValidateReqs :
        v.activation_id = None /\ v.benefit_id = None /\ v.user_id = None }

StartValidate ==
    \E w \in Workers, k \in KeyIds, v \in ConcValidateReqs :
        ValidateLoad(w, k, v)

EndValidate == \E w \in Workers : ValidateFlush(w)

StartActivate ==
    \E w \in Workers, k \in KeyIds, c \in Conds : ActivateCount(w, k, c)

EndActivate == \E w \in Workers : ActivateFlush(w)

NextLKConc ==
    \/ StartValidate
    \/ EndValidate
    \/ StartActivate
    \/ EndActivate

SpecLKConc == InitLKConc /\ [][NextLKConc]_vars

----------------------------------------------------------------------------
(* Specification of activations: the benefit has been granted to users 1   *)
(* and 2, each holds a key, and activate, deactivate and validate requests  *)
(* that name an activation are served one at a time.                        *)

InitLKAct ==
    /\ now = 0
    /\ \E p \in PropsSet : lks = << Build(1, 1, p, 1), Build(2, 1, p, 2) >>
    /\ acts = << >>
    /\ lkw = IdleWorkers
    /\ credit = 0
    /\ NoCheckouts
    /\ NoOrders
    /\ NoWebhooks
    /\ last = NoLast
    /\ ncalls = 0

\* The validate requests that name an activation and ask for no usage.
ActValidateReqs ==
    { v \in ValidateReqs :
        v.activation_id # None /\ v.increment_usage = None }

ValidateActivation ==
    \E k \in KeyIds, v \in ActValidateReqs : validate(k, v)

NextLKAct ==
    \/ Activate
    \/ Deactivate
    \/ ValidateActivation

SpecLKAct == InitLKAct /\ [][NextLKAct]_vars

----------------------------------------------------------------------------
(* Specification of grant updates: users 1 and 2 hold a key of the benefit, *)
(* the keys are used and activated, and grant jobs that carry a prior       *)
(* license key id are run.                                                  *)

\* The grant jobs with a prior id: an id of the table, or the next, unused
\* one.
RegrantReqs == Users \X (1..(Len(lks) + 1))

Regrant ==
    \E r \in RegrantReqs, b \in Benefits, p \in PropsSet :
        user_grant(r[1], b, p, r[2])

\* validate that names the key alone and asks for one usage
UseKey ==
    \E k \in KeyIds : validate(k, [NoReq EXCEPT !.increment_usage = 1])

NextLKRegrant ==
    \/ Regrant
    \/ UseKey
    \/ Activate

SpecLKRegrant == InitLKAct /\ [][NextLKRegrant]_vars

----------------------------------------------------------------------------
(* Specification of the grant and revoke jobs of the license key benefit:  *)
(* the jobs are delivered at least once, so each may run again with the    *)
(* arguments it ran with before, and with the id of a key granted before.  *)

GrantJob ==
    \E u \in Users, b \in Benefits, p \in PropsSet,
       id \in {None} \cup KeyIds :
        /\ id = None => Len(lks) < MaxGrants
        /\ user_grant(u, b, p, id)

RevokeJob ==
    \E u \in Users, b \in Benefits, id \in 1..MaxGrants :
        user_revoke(u, b, id)

NextLKGrant ==
    \/ GrantJob
    \/ RevokeJob

SpecLKGrant == InitLK /\ [][NextLKGrant]_vars

----------------------------------------------------------------------------
(* Specification of the webhook dispatcher: user 1 creates and deletes     *)
(* endpoints, and payloads are sent to user 1 and to organization 1, one   *)
(* send_payload call at a time.                                            *)

InitWebhook ==
    /\ NoLicenseKeys
    /\ NoCheckouts
    /\ NoOrders
    /\ NoWebhooks
    /\ last = NoLast
    /\ ncalls = 0

CreateEndpoint ==
    \E schema \in EndpointCreates :
        /\ whs.pc = "idle"
        /\ Len(webhook_endpoints) < MaxEndpoints
        /\ create_endpoint(UserSubject, schema)

DeleteEndpoint ==
    \E e \in EndpointIds :
        whs.pc = "idle" /\ delete_endpoint(UserSubject, e)

StartSend == \E t \in SendTargets, p \in Payloads : SendQuery(t, p)

Serialize == \E e \in EndpointIds : SendSerialize(e)

NextWebhook ==
    \/ CreateEndpoint
    \/ DeleteEndpoint
    \/ StartSend
    \/ Serialize
    \/ SendPersist
    \/ SendEnqueue
    \/ SendReturn

SpecWebhook == InitWebhook /\ [][NextWebhook]_vars

----------------------------------------------------------------------------
(* Specification of the endpoint operations and redelivery by three         *)
(* callers: user 1, who can write organization 1; user 2, a member of       *)
(* organization 1 who cannot write it; and organization 1 itself.           *)

CreateEndpointBy ==
    \E subject \in Subjects, schema \in EndpointCreates :
        /\ whs.pc = "idle"
        /\ Len(webhook_endpoints) < MaxEndpoints
        /\ subject.kind = "organization" => schema.organization_id = None
        /\ create_endpoint(subject, schema)

UpdateEndpointBy ==
    \E subject \in Subjects, e \in EndpointIds, schema \in EndpointUpdates :
        whs.pc = "idle" /\ update_endpoint(subject, e, schema)

DeleteEndpointBy ==
    \E subject \in Subjects, e \in EndpointIds :
        whs.pc = "idle" /\ delete_endpoint(subject, e)

SendOrder ==
    \E t \in SendTargets :
        SendQuery(t, [type |-> "order.created", signal |-> "none"])

Redeliver ==
    \E subject \in Subjects, id \in 1..(Len(webhook_events) + 1) :
        whs.pc = "idle" /\ redeliver_event(subject, id)

NextWebhookAuth ==
    \/ CreateEndpointBy
    \/ DeleteEndpointBy
    \/ SendOrder
    \/ Serialize
    \/ SendPersist
    \/ SendEnqueue
    \/ SendReturn
    \/ Redeliver

SpecWebhookAuth == InitWebhook /\ [][NextWebhookAuth]_vars

(* The endpoint operations alone, by the same three callers. *)

NextEndpoints ==
    \/ CreateEndpointBy
    \/ UpdateEndpointBy
    \/ DeleteEndpointBy

SpecEndpoints == InitWebhook /\ [][NextEndpoints]_vars

----------------------------------------------------------------------------
(* Specification of concurrent deliveries of external payment events *)

InitOrder ==
    /\ NoLicenseKeys
    /\ NoCheckouts
    /\ NoOrders
    /\ NoWebhooks
    /\ last = NoLast
    /\ ncalls = 0

ReceiveEvent ==
    \E w \in Workers, id \in 1..MaxInvoices, shape \in InvoiceShapes :
        ReconcileCheck(w, id, shape)

InsertOrder == \E w \in Workers : ReconcileInsert(w)

CommitOrder == \E w \in Workers : ReconcileCommit(w)

EnqueueJobs == \E w \in Workers : ReconcileEnqueue(w)

NextOrder ==
    \/ ReceiveEvent
    \/ InsertOrder
    \/ CommitOrder
    \/ EnqueueJobs

SpecOrder == InitOrder /\ [][NextOrder]_vars

----------------------------------------------------------------------------
(* Specification of deliveries of external payment events one at a time,   *)
(* to an organization with or without a connected payout account.          *)

Deliver ==
    \E id \in EventIds, invoice \in Invoices, account \in {None, 1} :
        create_order_from_stripe(id, invoice, account)

NextReconcile == Deliver

SpecReconcile == InitOrder /\ [][NextReconcile]_vars

----------------------------------------------------------------------------
(* Properties of the order reconciler and of the checkout state machine *)

\* The step completes a call of the operation op.
CallOf(op) == ncalls' = ncalls + 1 /\ last'.op = op

\* The number of Order rows of the table that carry the event id
OrdersOf(tbl, id) ==
    Cardinality({i \in 1..Len(tbl) : tbl[i].stripe_invoice_id = id})

\* C1: in every interleaving of reconciliations the number of Order rows
\* carrying a given external payment-event id never exceeds 1; an attempt
\* for an id that has a row fails without creating a row.
C1_OneOrderPerEvent ==
    [][/\ \A id \in 1..MaxInvoices : OrdersOf(orders', id) <= 1
       /\ \A w \in Workers :
            (/\ orw[w].pc = "insert" /\ orw'[w].pc # "insert"
             /\ OrdersOf(orders, orw[w].id) = 1)
            => /\ last'.outcome = "IntegrityError"
               /\ orders' = orders
               /\ jobs' = jobs
       /\ (CallOf("create_order_from_stripe") /\ last'.outcome # "ok")
            => orders' = orders /\ jobs' = jobs]_vars

\* A second delivery of an event has failed on the row of the first.
C1_Witness ==
    /\ last.op = "create_order_from_stripe"
    /\ last.outcome = "IntegrityError"
    /\ OrdersOf(orders, last.key) = 1
    /\ \E w \in Workers : orw[w].pc = "enqueue" /\ orw[w].id = last.key

\* C2: when the success callback of a confirmed checkout is delivered twice
\* one after the other, the first moves the checkout to succeeded and the
\* second raises NotConfirmedCheckout, issues no processor creation call
\* and creates no order.
C2_DuplicateCallback ==
    [][CallOf("handle_stripe_success") =>
        LET id == last'.key IN
        /\ (/\ id \in CheckoutIds
            /\ checkouts[id].status = "confirmed"
            /\ last'.req.status = "succeeded"
            /\ last'.req.customer # None
            /\ last'.req.payment_method # None)
           => /\ last'.outcome = "ok"
              /\ checkouts'[id].status = "succeeded"
        /\ (/\ last.op = "handle_stripe_success"
            /\ last.key = id
            /\ last.outcome = "ok")
           => /\ last'.outcome = "NotConfirmedCheckout"
              /\ stripeCalls' = stripeCalls
              /\ stripeObjects' = stripeObjects
              /\ orders' = orders
              /\ checkouts' = checkouts]_vars

\* A callback has been refused for a checkout that an earlier callback
\* moved to succeeded.
C2_Witness ==
    /\ last.op = "handle_stripe_success"
    /\ last.outcome = "NotConfirmedCheckout"
    /\ last.key \in CheckoutIds
    /\ checkouts[last.key].status = "succeeded"
    /\ Len(stripeCalls) = 1
    /\ stripeCalls[1].checkout = last.key

\* C3: in every interleaving of success callbacks every processor creation
\* call carries the idempotency key checkout_{id} of its checkout, two
\* checkouts never share a key, and the deduplicating processor creates at
\* most one subscription or invoice per checkout.
C3_IdempotencyKey ==
    /\ \A i \in 1..Len(stripeCalls) :
          stripeCalls[i].idempotency_key
              = <<"checkout_", stripeCalls[i].checkout>>
    /\ \A i, j \in 1..Len(stripeCalls) :
          stripeCalls[i].checkout # stripeCalls[j].checkout
              => stripeCalls[i].idempotency_key
                     # stripeCalls[j].idempotency_key
    /\ \A c \in CheckoutIds :
          Cardinality({o \in stripeObjects : o.checkout = c}) <= 1

\* Two callbacks of one checkout have both called the processor, and so
\* has a callback of another checkout.
C3_Witness ==
    \E i, j, k \in 1..Len(stripeCalls) :
        /\ i # j
        /\ stripeCalls[i].checkout = stripeCalls[j].checkout
        /\ stripeCalls[k].checkout # stripeCalls[i].checkout

TerminalStatuses == {"succeeded", "expired", "failed"}

StatusTransitions ==
    { <<"open", "confirmed">> }
    \cup { <<"confirmed", t>> : t \in TerminalStatuses }

\* C4: a checkout's status changes only along
\* open -> confirmed -> {succeeded, expired, failed}.
C4_StatusTransitions ==
    [][\A c \in CheckoutIds :
         checkouts'[c].status # checkouts[c].status
           => <<checkouts[c].status, checkouts'[c].status>>
                 \in StatusTransitions]_vars

\* The fields a terminal checkout is to keep
Purchase(ck) ==
    <<ck.amount, ck.currency, ck.product_price_id, ck.customer_name,
      ck.customer_email, ck.customer_billing_address, ck.user_metadata>>

\* C5: no update or confirm call applied to a checkout in a terminal
\* status changes its amount, currency, selected price, customer fields,
\* billing address or metadata.
C5_TerminalImmutable ==
    [][(CallOf("update") \/ CallOf("confirm")) =>
         \A c \in CheckoutIds :
           checkouts[c].status \in TerminalStatuses
             => Purchase(checkouts'[c]) = Purchase(checkouts[c])]_vars

----------------------------------------------------------------------------
(* Properties of the license key engine *)

Expired(lk) == lk.expires_at # None /\ now >= lk.expires_at

\* The request v names an activation, a benefit or a user that the key k
\* does not match.
Mismatch(k, v) ==
    \/ /\ v.activation_id # None
       /\ \/ v.activation_id \notin ActIds
          \/ acts[v.activation_id].license_key_id # k
          \/ acts[v.activation_id].deleted
          \/ /\ acts[v.activation_id].conditions # 0
             /\ acts[v.activation_id].conditions # v.conditions
    \/ v.benefit_id # None /\ v.benefit_id # lks[k].benefit_id
    \/ v.user_id # None /\ v.user_id # lks[k].user_id

\* What C6 says of one validate call with an increment n on an active,
\* unexpired key with a usage limit and no mismatch.  Fits is the condition
\* under which the call has to succeed.
ValidateContract(Fits(_, _, _)) ==
    CallOf("validate") =>
      LET k == last'.key
          v == last'.req
          n == v.increment_usage
          L == lks[k].limit_usage
          U == lks[k].usage
      IN
      (/\ is_active(lks[k]) /\ ~Expired(lks[k])
       /\ L # None /\ n # None /\ ~Mismatch(k, v))
      =>
      /\ (last'.outcome = "ok") <=> Fits(n, L, U)
      /\ last'.outcome = "ok" => lks'[k].usage = U + n
      /\ last'.outcome # "ok" =>
           /\ last'.outcome = "BadRequest"
           /\ last'.info = L - U
           /\ lks'[k].usage = U

FitsBudget(n, L, U) == n <= L - U

\* C6: validate with increment_usage = n on an active, unexpired key with
\* limit_usage = L and usage = U succeeds if and only if n <= L - U; on
\* success usage becomes U + n, on failure BadRequest reports L - U.
C6_ValidateIffFits == [][ValidateContract(FitsBudget)]_vars

\* C7: a license key that has a usage limit satisfies usage <= limit_usage.
C7_UsageWithinLimit ==
    \A k \in KeyIds :
        lks[k].limit_usage # None => lks[k].usage <= lks[k].limit_usage

Quiescent == \A w \in Workers : lkw[w].pc = "idle"

\* C8: once the concurrent validate calls have returned, the usage of the
\* key is its initial usage (0) plus the sum of the increments of the calls
\* that succeeded, and it does not exceed limit_usage.
C8_AtomicIncrement ==
    Quiescent =>
      \A k \in KeyIds :
        /\ lks[k].usage = credit
        /\ lks[k].limit_usage # None => lks[k].usage <= lks[k].limit_usage

\* C9: under concurrent activate calls the number of non-deleted
\* activations of a key never exceeds its limit_activations.
C9_ActivationsWithinLimit ==
    \A k \in KeyIds :
        lks[k].limit_activations # None =>
            CountIn(acts, k) <= lks[k].limit_activations

\* C10: activate, run alone, inserts exactly one new activation row if and
\* only if the key has an activation limit and its count of non-deleted
\* activations is below it; otherwise it raises NotPermitted and inserts no
\* row.
C10_ActivateAlone ==
    [][CallOf("activate") =>
        LET k == last'.key
            below == /\ lks[k].limit_activations # None
                     /\ CountIn(acts, k) < lks[k].limit_activations
        IN
        /\ (last'.outcome = "ok") <=> below
        /\ below =>
             /\ Len(acts') = Len(acts) + 1
             /\ SubSeq(acts', 1, Len(acts)) = acts
             /\ acts'[Len(acts')].license_key_id = k
             /\ ~acts'[Len(acts')].deleted
        /\ ~below => last'.outcome = "NotPermitted" /\ acts' = acts]_vars

\* An activate call has inserted a row for a key that was at its limit
\* before one of its activations was removed.
C10_Witness ==
    /\ last.op = "activate"
    /\ last.outcome = "ok"
    /\ CountIn(acts, last.key) = lks[last.key].limit_activations
    /\ \E a \in ActIds :
          acts[a].license_key_id = last.key /\ acts[a].deleted

\* C11: deactivating one activation of a key lowers its count of
\* non-deleted activations by one; when that leaves the count one below the
\* limit N, the next activate of the key succeeds and brings the count back
\* to N, and the activate that follows a successful one at count N is
\* refused with NotPermitted and inserts nothing.
C11_DeactivateFreesOne ==
    [][/\ CallOf("deactivate") /\ last'.outcome = "ok" =>
            CountIn(acts', last'.key) = CountIn(acts, last'.key) - 1
       /\ CallOf("activate") /\ last.key = last'.key
          /\ lks[last.key].limit_activations # None =>
            LET k == last.key
                N == lks[k].limit_activations
            IN
            /\ (/\ last.op = "deactivate" /\ last.outcome = "ok"
                /\ CountIn(acts, k) = N - 1)
               => /\ last'.outcome = "ok"
                  /\ CountIn(acts', k) = N
            /\ (/\ last.op = "activate" /\ last.outcome = "ok"
                /\ CountIn(acts, k) = N)
               => /\ last'.outcome = "NotPermitted"
                  /\ acts' = acts]_vars

\* The activate after the one that reused a freed seat has been refused.
C11_Witness ==
    /\ last.op = "activate"
    /\ last.outcome = "NotPermitted"
    /\ lks[last.key].limit_activations # None
    /\ CountIn(acts, last.key) = lks[last.key].limit_activations
    /\ \E a \in ActIds, b \in ActIds :
          /\ a < b
          /\ acts[a].license_key_id = last.key /\ acts[a].deleted
          /\ acts[b].license_key_id = last.key /\ ~acts[b].deleted

\* C12: validate on a key whose status is not active, or whose expiry has
\* passed, raises ResourceNotFound and changes nothing, whatever the
\* activation id, conditions, benefit id, user id and increment it carries.
C12_InactiveRejected ==
    [][CallOf("validate")
       /\ (~is_active(lks[last'.key]) \/ Expired(lks[last'.key]))
       => /\ last'.outcome = "ResourceNotFound"
          /\ lks' = lks
          /\ acts' = acts]_vars

\* A validate that names nothing the key does not match has been rejected
\* on a granted key at or after its expiry.
C12_Witness ==
    /\ last.op = "validate"
    /\ last.outcome = "ResourceNotFound"
    /\ is_active(lks[last.key])
    /\ Expired(lks[last.key])
    /\ ~Mismatch(last.key, last.req)

\* The request v differs from what is stored for key k: it names a live
\* activation of the key whose stored conditions are not the asserted
\* ones, or a benefit or a user that is not the key's.
Differs(k, v) ==
    \/ /\ v.activation_id # None
       /\ get_activation_or_raise(k, v.activation_id) # None
       /\ acts[v.activation_id].conditions # v.conditions
    \/ v.benefit_id # None /\ v.benefit_id # lks[k].benefit_id
    \/ v.user_id # None /\ v.user_id # lks[k].user_id

\* C13: validate raises ResourceNotFound whenever the stored conditions of
\* the supplied activation are not the conditions asserted by the caller,
\* whenever the supplied benefit id is not the key's, and whenever the
\* supplied user id is not the key's.
C13_MismatchRejected ==
    [][CallOf("validate") /\ Differs(last'.key, last'.req)
       => last'.outcome = "ResourceNotFound"]_vars

\* C14: deactivate soft-deletes exactly the named activation of the given
\* key; when the named activation does not exist, belongs to another key or
\* is soft-deleted already it raises ResourceNotFound and changes no
\* activation.  A soft-deleted activation stays deleted, is not counted by
\* activate and is not accepted as the activation id of validate.
C14_DeactivateNamed ==
    [][/\ CallOf("deactivate") =>
            LET k == last'.key
                aid == last'.req.activation_id
            IN
            /\ lks' = lks
            /\ IF /\ aid \in ActIds
                  /\ acts[aid].license_key_id = k
                  /\ ~acts[aid].deleted
                 THEN /\ last'.outcome = "ok"
                      /\ acts' = [acts EXCEPT ![aid].deleted = TRUE]
                 ELSE /\ last'.outcome = "ResourceNotFound"
                      /\ acts' = acts
       /\ \A a \in ActIds : acts[a].deleted => acts'[a].deleted
       /\ CallOf("activate") =>
            LET k == last'.key
                live == {a \in ActIds :
                           acts[a].license_key_id = k /\ ~acts[a].deleted}
            IN
            (/\ lks[k].limit_activations # None
             /\ Cardinality(live) < lks[k].limit_activations)
            => last'.outcome = "ok"
       /\ CallOf("validate") =>
            LET aid == last'.req.activation_id IN
            (aid \in ActIds /\ acts[aid].deleted)
            => last'.outcome = "ResourceNotFound"]_vars

\* A deactivate that named a live activation of the other key has been
\* refused.
C14_Witness ==
    /\ last.op = "deactivate"
    /\ last.outcome = "ResourceNotFound"
    /\ last.req.activation_id \in ActIds
    /\ acts[last.req.activation_id].license_key_id # last.key
    /\ ~acts[last.req.activation_id].deleted

\* The attributes of a license key that a grant update may assign.
GrantMutable == {"status", "expires_at", "limit_activations", "limit_usage"}

\* C15: user_grant with a prior license key id leaves the number of keys,
\* every other key and the activations as they were; when the id matches
\* (organization, user, benefit) it succeeds and changes at most status,
\* expires_at, limit_activations and limit_usage of that key (key string
\* and usage keep their values); when it does not match it raises
\* ResourceNotFound and changes no key.
C15_GrantInPlace ==
    [][CallOf("user_grant") =>
       \A u \in Users, b \in Benefits, p \in PropsSet,
          id \in 1..(Len(lks) + 1) :
          user_grant(u, b, p, id) =>
            LET match == /\ id \in KeyIds
                         /\ lks[id].organization_id = BenefitOrg(b)
                         /\ lks[id].user_id = u
                         /\ lks[id].benefit_id = b
            IN
            /\ Len(lks') = Len(lks)
            /\ acts' = acts
            /\ \A k \in KeyIds : k # id => lks'[k] = lks[k]
            /\ IF match
                 THEN /\ last'.outcome = "ok"
                      /\ \A f \in DOMAIN lks[id] \ GrantMutable :
                            lks'[id][f] = lks[id][f]
                 ELSE /\ last'.outcome = "ResourceNotFound"
                      /\ lks' = lks]_vars

\* A grant with a prior id has updated a key that has been used and
\* activated.
C15_Witness ==
    /\ last.op = "user_grant"
    /\ last.outcome = "ok"
    /\ last.info = 0
    /\ lks[last.key].usage > 0
    /\ CountIn(acts, last.key) > 0

\* The license keys of (organization of the benefit, user, benefit)
KeysOfGrant(u, b) ==
    {k \in KeyIds : /\ lks[k].organization_id = BenefitOrg(b)
                    /\ lks[k].user_id = u
                    /\ lks[k].benefit_id = b}

\* C16: however often the grant job of a license key benefit runs for a
\* user, there is at most one license key for (organization, user,
\* benefit): a second user_grant converges on the key of the first.
C16_GrantConverges ==
    \A u \in Users, b \in Benefits : Cardinality(KeysOfGrant(u, b)) <= 1

\* C17: revoked is terminal: a key whose status is revoked keeps that
\* status through every later grant, update, validate, activate and
\* deactivate call, and every validate on it is rejected.
C17_RevokedTerminal ==
    [][/\ \A k \in KeyIds :
            lks[k].status = "revoked" => lks'[k].status = "revoked"
       /\ CallOf("validate") /\ lks[last'.key].status = "revoked"
          => last'.outcome = "ResourceNotFound"]_vars

\* C18: user_revoke on a key of (organization, user, benefit) that is
\* revoked already raises no error and leaves every key and activation as
\* the first revoke left them.
C18_RevokeIdempotent ==
    [][CallOf("user_revoke") =>
       \A u \in Users, b \in Benefits, id \in 1..MaxKeys :
          (/\ user_revoke(u, b, id)
           /\ id \in KeyIds
           /\ lks[id].organization_id = BenefitOrg(b)
           /\ lks[id].user_id = u
           /\ lks[id].benefit_id = b
           /\ lks[id].status = "revoked")
          => /\ last'.outcome = "ok"
             /\ lks' = lks
             /\ acts' = acts]_vars

\* A revoke of a key that was revoked before has returned.
C18_Witness ==
    /\ last.op = "user_revoke"
    /\ last.outcome = "ok"
    /\ last.info = 1
    /\ lks[last.key].status = "revoked"

\* The endpoints that are not deleted, belong to the target and subscribe
\* to the event type of the payload.
Subscribed(target, payload) ==
    { e \in EndpointIds :
        /\ ~webhook_endpoints[e].deleted
        /\ payload.type \in webhook_endpoints[e].events
        /\ \/ /\ target.kind = "organization"
              /\ webhook_endpoints[e].organization_id = target.id
           \/ /\ target.kind = "user"
              /\ webhook_endpoints[e].user_id = target.id }

\* The subscribed endpoints for which serialising raises no signal.
Deliverable(target, payload) ==
    { e \in Subscribed(target, payload) :
        get_payload(payload, webhook_endpoints[e].format, target) = "ok" }

\* C19: send_payload does not raise, and whatever signal the other
\* endpoints raise and wherever they come in the iteration, every
\* subscribed endpoint that raises none has a WebhookEvent recorded by the
\* call and a delivery job enqueued for that event.
C19_SiblingsDelivered ==
    [][CallOf("send_payload") =>
        LET r == last'.req IN
        /\ last'.outcome = "ok"
        /\ \A e \in Deliverable(r.target, r.payload) :
             \E i \in (r.base + 1)..Len(webhook_events') :
                /\ webhook_events'[i].webhook_endpoint_id = e
                /\ \E j \in 1..Len(whJobs') :
                      whJobs'[j].webhook_event_id = i]_vars

\* A call has returned events after it visited an endpoint that raised a
\* signal and, later, a sibling that raised none.
C19_Witness ==
    /\ last.op = "send_payload"
    /\ Len(last.req.events) >= 1
    /\ \E i, j \in 1..Len(last.req.visited) :
          /\ i < j
          /\ get_payload(last.req.payload,
                 webhook_endpoints[last.req.visited[i]].format,
                 last.req.target) # "ok"
          /\ get_payload(last.req.payload,
                 webhook_endpoints[last.req.visited[j]].format,
                 last.req.target) = "ok"

\* C20: when send_payload returns, the WebhookEvent rows it has added are
\* one for each endpoint that is not deleted, is owned by the target,
\* subscribes to the event type and raised no signal, and none for any other
\* endpoint; every event has exactly one webhook_event.send job that
\* carries its id; the returned list is the events added; and no job is
\* ever enqueued for an event that is not persisted.
C20_OneEventPerEndpoint ==
    [][/\ CallOf("send_payload") =>
            LET r == last'.req
                created == (r.base + 1)..Len(webhook_events')
                eligible == Deliverable(r.target, r.payload)
            IN
            /\ \A e \in eligible :
                 Cardinality({i \in created :
                    webhook_events'[i].webhook_endpoint_id = e}) = 1
            /\ \A i \in created :
                 webhook_events'[i].webhook_endpoint_id \in eligible
            /\ Len(whJobs') = Len(webhook_events')
            /\ \A i \in 1..Len(webhook_events') :
                 Cardinality({j \in 1..Len(whJobs') :
                    /\ whJobs'[j].name = "webhook_event.send"
                    /\ whJobs'[j].webhook_event_id = i}) = 1
            /\ Len(r.events) = Cardinality(created)
            /\ {r.events[n] : n \in 1..Len(r.events)} = created
       /\ \A j \in 1..Len(whJobs') :
            whJobs'[j].webhook_event_id \in 1..Len(webhook_events')]_vars

\* A call has returned an event while the target has a deleted endpoint
\* subscribed to the event type and an endpoint of the other owner exists.
C20_Witness ==
    /\ last.op = "send_payload"
    /\ Len(last.req.events) >= 1
    /\ \E e \in EndpointIds :
          /\ webhook_endpoints[e].deleted
          /\ last.req.payload.type \in webhook_endpoints[e].events
          /\ IF last.req.target.kind = "organization"
               THEN webhook_endpoints[e].organization_id = last.req.target.id
               ELSE webhook_endpoints[e].user_id = last.req.target.id

\* C21: redeliver_event enqueues a job only for an event the caller can read
\* and whose endpoint the caller can write: an id that names no event, or an
\* event of an endpoint that is deleted or outside the caller's scope, raises
\* ResourceNotFound; a readable event whose endpoint the caller cannot write
\* raises NotPermitted; both enqueue nothing. Otherwise exactly one
\* webhook_event.send job for the event is enqueued. No call adds an event.
InScope(subject, e) ==
    /\ ~webhook_endpoints[e].deleted
    /\ \/ subject.kind = "user" /\ webhook_endpoints[e].user_id = subject.id
       \/ /\ subject.kind = "user"
          /\ <<subject.id, webhook_endpoints[e].organization_id>>
                \in UserOrganizations
       \/ /\ subject.kind = "organization"
          /\ webhook_endpoints[e].organization_id = subject.id

C21_RedeliverRevalidates ==
    [][CallOf("redeliver_event") =>
        LET id == last'.key
            subject == last'.req
            found == /\ id \in 1..Len(webhook_events)
                     /\ InScope(subject, webhook_events[id].webhook_endpoint_id)
        IN
        /\ webhook_events' = webhook_events
        /\ webhook_endpoints' = webhook_endpoints
        /\ IF ~found
             THEN last'.outcome = "ResourceNotFound" /\ whJobs' = whJobs
           ELSE IF ~authz_can_write_endpoint(subject,
                        webhook_events[id].webhook_endpoint_id)
             THEN last'.outcome = "NotPermitted" /\ whJobs' = whJobs
           ELSE /\ last'.outcome = "ok"
                /\ whJobs' = Append(whJobs, [name |-> "webhook_event.send",
                                             webhook_event_id |-> id])]_vars

\* A redelivery by a member who can read the event's endpoint and cannot
\* write it was refused.
C21_Witness ==
    /\ last.op = "redeliver_event"
    /\ last.outcome = "NotPermitted"
    /\ last.req = MemberSubject
    /\ whJobs # <<>>

\* C22: update_endpoint and delete_endpoint by a caller who cannot write the
\* endpoint raise NotPermitted and leave the endpoint as it was, and
\* create_endpoint with an explicit organization id the caller cannot write
\* raises and creates no endpoint.
C22_WriteAccessRequired ==
    [][/\ CallOf("update_endpoint") =>
            \A subject \in Subjects, e \in EndpointIds,
               schema \in EndpointUpdates :
                /\ ~authz_can_write_endpoint(subject, e)
                /\ update_endpoint(subject, e, schema)
                => /\ last'.outcome = "NotPermitted"
                   /\ webhook_endpoints' = webhook_endpoints
       /\ CallOf("delete_endpoint") =>
            \A subject \in Subjects, e \in EndpointIds :
                /\ ~authz_can_write_endpoint(subject, e)
                /\ delete_endpoint(subject, e)
                => /\ last'.outcome = "NotPermitted"
                   /\ webhook_endpoints' = webhook_endpoints
       /\ CallOf("create_endpoint") =>
            \A subject \in Subjects, schema \in EndpointCreates :
                /\ schema.organization_id # None
                /\ ~can_write_organization(subject, schema.organization_id)
                /\ create_endpoint(subject, schema)
                => /\ last'.outcome # "ok"
                   /\ webhook_endpoints' = webhook_endpoints]_vars

\* A deletion was refused and the endpoint is still there.
C22_Witness ==
    /\ last.op = "delete_endpoint"
    /\ last.outcome = "NotPermitted"
    /\ ~webhook_endpoints[last.key].deleted

\* C23: every endpoint, deleted or not, has exactly one of user_id and
\* organization_id set, after any sequence of create_endpoint,
\* update_endpoint and delete_endpoint.
C23_OneOwner ==
    \A e \in EndpointIds :
        (webhook_endpoints[e].user_id = None)
            # (webhook_endpoints[e].organization_id = None)

\* A user's endpoint and an organization's endpoint exist, one of them
\* deleted, and the last call updated one.
C23_Witness ==
    /\ last.op = "update_endpoint"
    /\ last.outcome = "ok"
    /\ \E e \in EndpointIds : webhook_endpoints[e].user_id # None
    /\ \E e \in EndpointIds : webhook_endpoints[e].organization_id # None
    /\ \E e \in EndpointIds : webhook_endpoints[e].deleted

\* C24: a confirm whose trailing update is accepted raises the missing-fields
\* error exactly when the updated checkout violates a requirement, and the
\* error names all of the violated requirements together: the amount of a
\* custom price, customer_name, customer_email, customer_billing_address.
Required(ck) ==
    { f \in {"amount", "customer_name", "customer_email",
             "customer_billing_address"} :
        /\ ck[f] = None
        /\ f = "amount" => Prices[ck.product_price_id].type = "custom" }

C24_AllMissingTogether ==
    [][CallOf("confirm") =>
        LET u == UpdateOutcome(checkouts[last'.key], last'.req) IN
        u.exc = "ok" =>
            /\ last'.info = Required(u.ck)
            /\ last'.outcome = "MissingFields" <=> Required(u.ck) # {}
            /\ last'.outcome = "ok" <=> Required(u.ck) = {}]_vars

\* A confirm was refused for a missing amount and a missing customer field
\* at once.
C24_Witness ==
    /\ last.op = "confirm"
    /\ last.outcome = "MissingFields"
    /\ "amount" \in last.info
    /\ Cardinality(last.info) >= 2
    /\ Cardinality(last.info) < 4

\* C25: an explicit amount is accepted only on a custom price. A create whose
\* price is found and not archived, and an update whose price (the one it
\* swaps in, when it swaps one in and the swap is accepted) is not custom,
\* raise a validation error located at amount when the request carries an
\* amount, and the create adds no checkout; with a custom price the call
\* succeeds and the checkout holds the given amount.
Sellable(p) ==
    /\ p \in PriceIds
    /\ PriceOrg(p) = WritableOrg
    /\ ~Prices[p].is_archived
    /\ ~Products[Prices[p].product_id].is_archived

SwapAccepted(ck, p) ==
    /\ p \in PriceIds
    /\ PriceOrg(p) = Products[ck.product_id].organization_id
    /\ ~Prices[p].is_archived
    /\ Prices[p].product_id = ck.product_id

AmountContract(p, amount, c) ==
    IF Prices[p].type \in {"fixed", "free"}
      THEN /\ last'.outcome # "ok"
           /\ last'.info = "amount"
           /\ last'.op = "create" => checkouts' = checkouts
      ELSE /\ last'.outcome = "ok"
           /\ c \in 1..Len(checkouts')
           /\ checkouts'[c].amount = amount
           /\ checkouts'[c].product_price_id = p

C25_AmountOnlyOnCustom ==
    [][/\ CallOf("create") =>
            LET req == last'.req IN
            req.amount # None /\ Sellable(req.product_price_id)
                => AmountContract(req.product_price_id, req.amount,
                                  Len(checkouts) + 1)
       /\ CallOf("update") =>
            LET upd == last'.req
                ck == checkouts[last'.key]
                swap == upd.product_price_id # None
            IN
            upd.amount # None /\ (swap => SwapAccepted(ck, upd.product_price_id))
                => AmountContract(IF swap THEN upd.product_price_id
                                  ELSE ck.product_price_id,
                                  upd.amount, last'.key)]_vars

\* An update gave an amount to a checkout of a fixed or free price and was
\* refused at amount.
C25_Witness ==
    /\ last.op = "update"
    /\ last.req.amount # None
    /\ last.info = "amount"
    /\ Prices[checkouts[last.key].product_price_id].type # "custom"

\* C26: the amount and the currency of every checkout agree with the type of
\* its price: both null for a free price, the price's amount and currency
\* for a fixed price, the price's currency for a custom price.
AgreesWithPrice(ck) ==
    LET price == Prices[ck.product_price_id] IN
    /\ price.type = "free" => ck.amount = None /\ ck.currency = NoneS
    /\ price.type = "fixed" => /\ ck.amount = price.price_amount
                               /\ ck.currency = price.price_currency
    /\ price.type = "custom" => ck.currency = price.price_currency

C26_AmountFollowsPrice ==
    \A c \in CheckoutIds : AgreesWithPrice(checkouts[c])

\* An update or a confirm selected the free price and the checkout has no
\* amount.
C26_Witness ==
    /\ last.op \in {"update", "confirm"}
    /\ last.outcome = "ok"
    /\ last.req.product_price_id # None
    /\ Prices[checkouts[last.key].product_price_id].type = "free"
    /\ checkouts[last.key].amount = None

\* C27: a delivery of an event with exactly one non-proration line, among
\* any number of proration lines, never fails as ambiguous; the price it
\* resolves is the one that line names (when the reference names no price
\* the delivery of an order event fails with ProductPriceDoesNotExist), and
\* the order it records has that price and the amount total - tax, the tax
\* counting as 0 when absent.
Kept(invoice) == SelectSeq(invoice.lines, LAMBDA l : ~l.proration)

Net(invoice) ==
    IF invoice.tax = None THEN invoice.total ELSE invoice.total - invoice.tax

C28_AmbiguousPrice ==
    [][CallOf("create_order_from_stripe") =>
        LET invoice == last'.req.invoice IN
        (/\ invoice.type = "product"
         /\ Len(Kept(invoice)) # 1
         /\ invoice.override = None)
        => /\ last'.outcome = "CantDetermineInvoicePrice"
           /\ orders' = orders
           /\ jobs' = jobs
           /\ ledger' = ledger]_vars

\* An event with two non-proration lines was refused.
C28_Witness ==
    /\ last.op = "create_order_from_stripe"
    /\ last.outcome = "CantDetermineInvoicePrice"
    /\ Len(Kept(last.req.invoice)) = 2

\* C29 as stated: a delivery of an event without a charge reference, whose
\* price is resolved, fails with InvoiceWithoutCharge and records no order
\* unless nothing was paid, and then records an order without a charge.
Resolved(invoice) ==
    /\ invoice.type = "product"
    /\ \/ /\ Len(Kept(invoice)) = 1
          /\ Kept(invoice)[1].price \in 1..Len(OrderPrices)
       \/ /\ Len(Kept(invoice)) = 0
          /\ invoice.override \in 1..Len(OrderPrices)

ChargeContract(invoice) ==
    IF invoice.amount_paid > 0
      THEN /\ last'.outcome = "InvoiceWithoutCharge"
           /\ orders' = orders
      ELSE /\ last'.outcome \in {"ok", "IntegrityError"}
           /\ last'.outcome = "ok" =>
                /\ Len(orders') = Len(orders) + 1
                /\ orders'[last'.info].charge = None
                /\ ledger' = ledger

C29_NoChargeNoOrder ==
    [][CallOf("create_order_from_stripe") =>
        LET invoice == last'.req.invoice IN
        Resolved(invoice) /\ ~invoice.charge => ChargeContract(invoice)]_vars

\* C29, amended: the same of an event that has no charge reference and
\* whose metadata names no payment intent; the charge of an event whose
\* metadata names one is the latest charge of that intent.
C29_NoChargeNoIntentNoOrder ==
    [][CallOf("create_order_from_stripe") =>
        LET invoice == last'.req.invoice IN
        /\ (Resolved(invoice) /\ ~invoice.charge /\ ~invoice.payment_intent)
              => ChargeContract(invoice)
        /\ (~invoice.charge /\ invoice.payment_intent
            /\ last'.outcome = "ok")
              => orders'[last'.info].charge = last'.key]_vars

\* An event on which something was paid and that names no charge was
\* refused, after an event on which nothing was paid was recorded.
C29_Witness ==
    /\ last.op = "create_order_from_stripe"
    /\ last.outcome = "InvoiceWithoutCharge"
    /\ ~last.req.invoice.payment_intent
    /\ \E o \in 1..Len(orders) : orders[o].charge = None

\* C30: a delivery that records an order with a charge links the payment
\* transaction of the charge to the order and routes the revenue one way:
\* with a payout account, one balance transfer of the payment's amount to
\* the account and one fee reversal, and no held balance; without, one held
\* balance of the organization of the order, linked to the order, and no
\* transfer.
C30_OneRoute ==
    [][(CallOf("create_order_from_stripe") /\ last'.outcome = "ok") =>
        LET o == last'.info
            charge == orders'[o].charge
            account == last'.req.account
        IN
        charge # None =>
            /\ ledger'.payments[charge].order_id = o
            /\ \A c \in EventIds \ {charge} :
                  ledger'.payments[c] = ledger.payments[c]
            /\ IF account # None
                 THEN /\ ledger'.balances = Append(ledger.balances,
                            [destination_account |-> account,
                             charge_id |-> charge,
                             amount |-> ledger.payments[charge].amount])
                      /\ ledger'.reversals = Append(ledger.reversals, charge)
                      /\ ledger'.held = ledger.held
                 ELSE /\ ledger'.held = Append(ledger.held,
                            [organization_id |->
                                 OrderPrices[orders'[o].product_price_id]
                                     .organization_id,
                             order_id |-> o,
                             charge_id |-> charge])
                      /\ ledger'.balances = ledger.balances
                      /\ ledger'.reversals = ledger.reversals]_vars

\* One order was routed to the account and another is held.
C30_Witness ==
    /\ last.op = "create_order_from_stripe"
    /\ last.outcome = "ok"
    /\ last.req.account = None
    /\ Len(ledger.held) = 1
    /\ Len(ledger.balances) = 1
    /\ ledger.payments[orders[last.info].charge].order_id = last.info

\* C31: the jobs of a reconciliation are enqueued only after its Order row
\* is committed: every job in the queue names a committed order, the queue
\* does not grow while a reconciliation checks, inserts or commits, and a
\* reconciliation that fails enqueues nothing.
C31_JobsAfterCommit ==
    [][/\ \A j \in 1..Len(jobs') : jobs'[j].order_id \in 1..Len(orders')
       /\ \A w \in Workers :
            orw[w].pc \in {"idle", "insert", "commit"} /\ orw'[w] # orw[w]
                => jobs' = jobs
       /\ (CallOf("create_order_from_stripe") /\ last'.outcome # "ok")
            => jobs' = jobs]_vars

\* The jobs of a committed order are in the queue while another
\* reconciliation has inserted its row and not committed it.
C31_Witness ==
    /\ jobs # << >>
    /\ \E w \in Workers : orw[w].pc = "commit"
    /\ \A j \in 1..Len(jobs) : jobs[j].order_id \in 1..Len(orders)

\* C32: every successful reconciliation enqueues order.discord_notification
\* for the new order, followed by benefit.enqueue_benefits_grants (task
\* grant, with the user, the product and the order) exactly when the event
\* has no subscription; nothing else is enqueued.
C32_FanOut ==
    [][(CallOf("create_order_from_stripe") /\ last'.outcome = "ok") =>
        LET o == last'.info
            invoice == last'.req.invoice
            notification ==
                [name |-> "order.discord_notification", order_id |-> o]
            grants ==
                [name |-> "benefit.enqueue_benefits_grants",
                 task |-> "grant", user_id |-> orders'[o].user_id,
                 product_id |-> orders'[o].product_id, order_id |-> o]
        IN
        jobs' = IF invoice.subscription = None
                  THEN jobs \o << notification, grants >>
                  ELSE jobs \o << notification >>]_vars

\* A one-time order on which nothing was paid enqueued both jobs after a
\* subscription order enqueued one.
C32_Witness ==
    /\ last.op = "create_order_from_stripe"
    /\ last.outcome = "ok"
    /\ last.req.invoice.subscription = None
    /\ last.req.invoice.amount_paid = 0
    /\ Len(jobs) = 3

\* C33: a validate call that is rejected, for whatever reason, leaves the
\* license key as it was: its usage, its validated mark and its other
\* columns, and the activations.
C33_RejectedValidateUnchanged ==
    [][(CallOf("validate") /\ last'.outcome # "ok") =>
        /\ lks'[last'.key].usage = lks[last'.key].usage
        /\ lks'[last'.key].last_validated_at
              = lks[last'.key].last_validated_at
        /\ lks' = lks
        /\ acts' = acts]_vars

\* A validate asked for more usage than the key has left and was refused.
C33_Witness ==
    /\ last.op = "validate"
    /\ last.outcome = "BadRequest"
    /\ last.req.increment_usage
          > lks[last.key].limit_usage - lks[last.key].usage

\* C39: activate adds an activation row exactly when the key has an
\* activation limit and fewer activations that are not deleted than the
\* limit, whatever the status and the expiry of the key; otherwise it
\* raises NotPermitted and adds nothing.
C39_ActivateIgnoresStatus ==
    [][CallOf("activate") =>
        LET k == last'.key
            count == Cardinality({a \in 1..Len(acts) :
                                    /\ acts[a].license_key_id = k
                                    /\ ~acts[a].deleted})
            below == /\ lks[k].limit_activations \notin {None, 0}
                     /\ count < lks[k].limit_activations
        IN
        IF below
          THEN /\ last'.outcome = "ok"
               /\ Len(acts') = Len(acts) + 1
               /\ acts'[Len(acts')].license_key_id = k
               /\ ~acts'[Len(acts')].deleted
          ELSE /\ last'.outcome = "NotPermitted"
               /\ acts' = acts]_vars

\* A key that is revoked or disabled, or has expired, gained an activation.
C39_Witness ==
    /\ last.op = "activate"
    /\ last.outcome = "ok"
    /\ \/ lks[last.key].status \in {"revoked", "disabled"}
       \/ /\ lks[last.key].expires_at # None
          /\ now >= lks[last.key].expires_at

\* C34: an update that raises a validation error leaves the checkout as it
\* was before the call: the object the call was given has the selected
\* price, the amount, the currency and every other field of the row it was
\* loaded from.
C34_RefusedUpdateUnchanged ==
    [][(CallOf("update") /\ last'.outcome # "ok") =>
        /\ checkout'.product_price_id = checkouts[last'.key].product_price_id
        /\ checkout'.amount = checkouts[last'.key].amount
        /\ checkout'.currency = checkouts[last'.key].currency
        /\ checkout' = checkouts[last'.key]]_vars

\* C35: a confirm that fails with the missing-field validation error
\* creates no processor customer and no setup intent, stores no processor
\* metadata and leaves the status of the checkout as it was, in the row and
\* in the object the call worked on.
C35_RefusedConfirmCreatesNothing ==
    [][(CallOf("confirm") /\ last'.outcome = "MissingFields") =>
        LET c == last'.key IN
        /\ stripeCustomers' = stripeCustomers
        /\ setupIntents' = setupIntents
        /\ checkouts'[c].payment_processor_metadata
              = checkouts[c].payment_processor_metadata
        /\ checkout'.payment_processor_metadata
              = checkouts[c].payment_processor_metadata
        /\ checkouts'[c].status = checkouts[c].status
        /\ checkout'.status = checkouts[c].status]_vars

\* A confirm of an open checkout paid through the processor was refused for
\* missing fields.
C35_Witness ==
    /\ last.op = "confirm"
    /\ last.outcome = "MissingFields"
    /\ last.info # {}
    /\ checkouts[last.key].payment_processor = "stripe"
    /\ checkouts[last.key].status = "open"
    /\ stripeCustomers = << >>

\* C36: handle_stripe_success tests, in this order, that the checkout
\* exists, that it is confirmed, that the setup intent has succeeded, that
\* it has a customer and that it has a payment method, and raises at the
\* first test that fails; a callback that raises issues no
\* create_subscription or create_invoice call and leaves the checkouts as
\* they were.
C36_RefusedCallback ==
    [][CallOf("handle_stripe_success") =>
        LET id == last'.key
            si == last'.req
            first ==
                IF id \notin 1..Len(checkouts) THEN "CheckoutDoesNotExist"
                ELSE IF checkouts[id].status # "confirmed"
                  THEN "NotConfirmedCheckout"
                ELSE IF si.status # "succeeded"
                  THEN "SetupIntentNotSucceeded"
                ELSE IF si.customer = None THEN "NoCustomerOnSetupIntent"
                ELSE IF si.payment_method = None
                  THEN "NoPaymentMethodOnSetupIntent"
                ELSE "ok"
        IN
        /\ last'.outcome = first
        /\ first # "ok" =>
              /\ stripeCalls' = stripeCalls
              /\ stripeObjects' = stripeObjects
              /\ checkouts' = checkouts]_vars

\* A callback for a checkout that is not confirmed, with a setup intent that
\* has not succeeded, was refused for the status of the checkout.
C36_Witness ==
    /\ last.op = "handle_stripe_success"
    /\ last.outcome = "NotConfirmedCheckout"
    /\ last.req.status # "succeeded"
    /\ checkouts[last.key].status = "open"
    /\ stripeCalls = << >>

\* C37: a checkout that is confirmed or succeeded has a customer name, a
\* customer email and a billing address, and an amount when its price is a
\* custom price.
C37_ConfirmedIsComplete ==
    \A c \in 1..Len(checkouts) :
        checkouts[c].status \in {"confirmed", "succeeded"} =>
            /\ checkouts[c].customer_name # None
            /\ checkouts[c].customer_email # None
            /\ checkouts[c].customer_billing_address # None
            /\ Prices[checkouts[c].product_price_id].type = "custom"
                  => checkouts[c].amount # None

\* C38: the confirm calls on one checkout create at most one processor
\* customer and at most one setup intent for it.
C38_OneCustomerPerCheckout ==
    \A c \in 1..Len(checkouts) :
        /\ Cardinality({i \in 1..Len(stripeCustomers) :
                          stripeCustomers[i].checkout = c}) <= 1
        /\ Cardinality({i \in 1..Len(setupIntents) :
                          setupIntents[i].checkout_id = c}) <= 1

\* C40: once delete_endpoint has marked an endpoint deleted, no send_payload
\* that follows creates a WebhookEvent for it, no delivery job is enqueued
\* for one of its events, and redeliver_event for one of its events raises
\* ResourceNotFound and enqueues nothing, whoever asks.
C40_DeletedEndpointIsSilent ==
    [][/\ Len(webhook_events') > Len(webhook_events) =>
            ~webhook_endpoints[webhook_events'[Len(webhook_events')]
                                  .webhook_endpoint_id].deleted
       /\ Len(whJobs') > Len(whJobs) =>
            ~webhook_endpoints[
                 webhook_events[whJobs'[Len(whJobs')].webhook_event_id]
                    .webhook_endpoint_id].deleted
       /\ (/\ CallOf("redeliver_event")
           /\ last'.key \in 1..Len(webhook_events)
           /\ webhook_endpoints[webhook_events[last'.key]
                                   .webhook_endpoint_id].deleted)
            => last'.outcome = "ResourceNotFound" /\ whJobs' = whJobs]_vars

\* The user who owns a deleted endpoint asked for one of its events to be
\* delivered again and was told the event does not exist.
C40_Witness ==
    /\ last.op = "redeliver_event"
    /\ last.outcome = "ResourceNotFound"
    /\ last.req = UserSubject
    /\ last.key \in 1..Len(webhook_events)
    /\ LET e == webhook_events[last.key].webhook_endpoint_id IN
          /\ webhook_endpoints[e].deleted
          /\ webhook_endpoints[e].user_id = UserSubject.id
    /\ Len(whJobs) = 1

====
